---- MODULE Spec2Model ----
(***************************************************************************)
(* Model of the wasp-os widget library (wasp/widgets.py): the lazy-redraw  *)
(* widgets, the StatusBar composite and the touch handlers.                *)
(*                                                                         *)
(* A host screen owns one widget (or one composite); `scene` names it.     *)
(* Every widget method is one action.  The observation variables op, ret,  *)
(* calls, drawn and pre record the last method call: its name, its return  *)
(* value, the collaborators it called in order, the Drawing Surface calls  *)
(* it issued in order, and the widget state it started from.               *)
(***************************************************************************)
EXTENDS Integers, Sequences, FiniteSets, TLC

VARIABLES
    scene,          \* which widget the host screen exercises
    rtc,            \* wasp.watch.rtc.get_localtime()
    charging,       \* watch.battery.charging()
    battery,        \* watch.battery.level()
    connected,      \* wasp.watch.connected()
    notifications,  \* wasp.system.notifications (truthiness)
    theme,          \* the active theme of wasp.system.theme()
    level,          \* BatteryMeter.level
    on_screen,      \* Clock.on_screen (<<>> is None)
    enabled,        \* Clock.enabled
    button,         \* Button: _im
    scroll,         \* ScrollIndicator: _pos, up, down
    checkbox,       \* Checkbox: _im, state
    slider,         \* Slider: value, _steps, _x, _y, _color, _lowlight
    spinner,        \* Spinner: _im, value
    confirm,        \* ConfirmationView: active, value
    card,           \* Card: icon, title, state, on_icon
    clockapp,       \* ClockApp: _min (has_min: it was assigned)
    op,             \* name of the last method called ("env": a provider changed)
    ev,             \* the touch event it was given
    ret,            \* its return value
    calls,          \* the collaborators it called, in order
    drawn,          \* the Drawing Surface calls it issued, in order
    pass,           \* the touch() calls of a dispatch pass, in order
    pre,            \* the widget state it started from
    screen          \* what the Drawing Surface shows of the battery meter

envVars == <<rtc, charging, battery, connected, notifications, theme>>
barVars == <<level, on_screen, enabled>>
touchVars == <<button, scroll, checkbox, slider, spinner, confirm, card>>
appVars == <<clockapp>>
widgetVars == <<barVars, touchVars, appVars>>
obsVars == <<op, ev, ret, calls, drawn, pass, pre, screen>>
vars == <<scene, envVars, widgetVars, obsVars>>

(***************************************************************************)
(* Bounds of the model.                                                    *)
(***************************************************************************)
MaxHour == 1
MaxMinute == 1
MaxSecond == 1

\* the themes the user can switch between are 0..MaxTheme
MaxTheme == 1

\* battery readings offered to the StatusBar composite: both sides of the 5%
\* threshold and a full bar
BarLevels == {5, 7, 100}

\* battery.level() -> 0..100, sampled: every level up to 10 (the 5% threshold),
\* and the edges of the bar heights 10, 18, 19 and 22 and of the colour cap
Levels == (0..10) \cup {45, 46, 81, 82, 86, 87, 90, 91, 93, 99, 100}

\* touch coordinates on the 240 x 240 display: both sides of every hit box edge
TouchXs == {0, 9, 10, 30, 89, 90, 119, 120, 149, 150, 229, 230}

TouchYs == {0, 39, 40, 79, 80, 99, 100, 129, 130, 159, 160, 194, 195, 219, 220}

\* touch coordinates offered to a dispatch pass: inside and outside every
\* widget of the screen
DispatchXs == {0, 100, 119, 120, 200}

DispatchYs == {0, 45, 110, 150, 170, 230}

\* further touch x coordinates for a Slider at x = 10: both sides of the
\* rounding points of 2 and 5 steps, and of the ends of the track
SliderXs == {29, 31, 52, 53, 97, 98, 142, 143, 187, 188, 209, 210, 211, 239}

\* the numbers of steps a Slider is constructed with
SliderSteps == {2, 5}

(***************************************************************************)
(* Values.                                                                 *)
(***************************************************************************)
\* Python's None, for on_screen
None == <<>>

\* TimeTuple (year, month, day, hour, minute, second, weekday, yday);
\* Python index i is TLA+ index i+1
TimeTuple(h, m, s) == <<2020, 1, 1, h, m, s, 2, 1>>

Times == {TimeTuple(h, m, s) : h \in 0..MaxHour, m \in 0..MaxMinute, s \in 0..MaxSecond}

Themes == 0..MaxTheme

\* return values: None, a bool, a time tuple
RetNone == [kind |-> "None", b |-> FALSE, t |-> <<>>]

RetBool(v) == [kind |-> "bool", b |-> v, t |-> <<>>]

RetTime(t) == [kind |-> "time", b |-> FALSE, t |-> t]

\* Python truthiness of a return value (a time tuple is a non-empty tuple)
Truthy(r) == \/ r.kind = "bool" /\ r.b
             \/ r.kind = "time" /\ Len(r.t) > 0

\* colours: a theme lookup made under the theme active at the call, a literal
\* RGB565 value, or a colour transformed by the Drawing Surface (`by` holds
\* the amount it was lightened by); NoColor is an argument left out, or None
ThemeColor(th, role) ==
    [src |-> "theme", role |-> role, theme |-> th, value |-> 0, by |-> <<>>]

Rgb(v) == [src |-> "rgb", role |-> "", theme |-> 0, value |-> v, by |-> <<>>]

NoColor == [src |-> "", role |-> "", theme |-> 0, value |-> 0, by |-> <<>>]

Lighten(c, amount) ==
    [src |-> "lighten", role |-> c.role, theme |-> c.theme, value |-> c.value,
     by |-> <<amount>>]

Darken(c) ==
    [src |-> "darken", role |-> c.role, theme |-> c.theme, value |-> c.value,
     by |-> <<>>]

\* Drawing Surface calls (and the display's mute switch)
DrawCall(call, icon, text, fg, bg, hl, x, y, w, h) ==
    [call |-> call, icon |-> icon, text |-> text, fg |-> fg, bg |-> bg, hl |-> hl,
     x |-> x, y |-> y, w |-> w, h |-> h]

Blit(icon, x, y, fg) == DrawCall("blit", icon, <<>>, fg, NoColor, NoColor, x, y, 0, 0)

Blit3(icon, x, y, fg, c1, c2) == DrawCall("blit", icon, <<>>, fg, c1, c2, x, y, 0, 0)

Fill(bg, x, y, w, h) == DrawCall("fill", "", <<>>, NoColor, bg, NoColor, x, y, w, h)

\* draw.fill(): the whole display, in the background colour
FillAll == DrawCall("fill", "", <<>>, NoColor, NoColor, NoColor, 0, 0, 240, 240)

SetFont(font) == DrawCall("set_font", font, <<>>, NoColor, NoColor, NoColor, 0, 0, 0, 0)

SetColor(fg) == DrawCall("set_color", "", <<>>, fg, NoColor, NoColor, 0, 0, 0, 0)

SetColor2(fg, bg) == DrawCall("set_color", "", <<>>, fg, bg, NoColor, 0, 0, 0, 0)

String(s, x, y, w) == DrawCall("string", "", s, NoColor, NoColor, NoColor, x, y, w, 0)

LightenCall(c, amount) == DrawCall("lighten", "", <<>>, c, amount, NoColor, 0, 0, 0, 0)

DarkenCall(c) == DrawCall("darken", "", <<>>, c, NoColor, NoColor, 0, 0, 0, 0)

Mute(on) == DrawCall("mute", IF on THEN "True" ELSE "False", <<>>,
                     NoColor, NoColor, NoColor, 0, 0, 0, 0)

\* '{:02}'.format(n) for 0 <= n: at least two digits, zero padded
Digit(d) == CASE d = 0 -> "0" [] d = 1 -> "1" [] d = 2 -> "2" [] d = 3 -> "3"
              [] d = 4 -> "4" [] d = 5 -> "5" [] d = 6 -> "6" [] d = 7 -> "7"
              [] d = 8 -> "8" [] d = 9 -> "9"

RECURSIVE Str(_)
Str(n) == IF n < 10 THEN <<Digit(n)>> ELSE Str(n \div 10) \o <<Digit(n % 10)>>

Fmt02(n) == IF n < 10 THEN <<"0", Digit(n)>> ELSE Str(n)

(***************************************************************************)
(* BatteryMeter                                                            *)
(***************************************************************************)
\* icons.battery[1], the width of the battery icon
battery_icon_w == 36

\* the level -> colour mapping of the fill bar
BarColor(lvl) ==
    LET green == IF lvl \div 3 > 31 THEN 31 ELSE lvl \div 3
        red == 31 - green
    IN  (red * 2048) + (green * 64)

\* a threshold test that puts 5% on the high side
IconStale_at5(self_level, lvl) == self_level < 0 \/ ((lvl >= 5) # (self_level >= 5))

\* the icon is re-blitted when nothing valid is cached or the 5% threshold is crossed
IconStale(self_level, lvl) == self_level < 0 \/ ((lvl > 5) # (self_level > 5))

\* the fill bar: clear the unfilled rows, then paint the filled rows
BarFills(lvl, rgb) ==
    LET w == battery_icon_w - 4
        x == 239 - 7 - w
        h == (lvl * 22) \div 100
    IN  (IF 18 - h # 0 THEN <<Fill(Rgb(0), x, 9, w, 22 - h)>> ELSE <<>>)
        \o (IF h # 0 THEN <<Fill(Rgb(rgb), x, 9 + 22 - h, w, h)>> ELSE <<>>)

\* the charging branch blits the icon but does not record -1
BatteryMeter_update_nostore(self_level, th) ==
    IF charging
    THEN IF self_level # -1
         THEN [level |-> self_level,
               calls |-> <<"battery.charging">>,
               drawn |-> <<Blit("battery", 239 - battery_icon_w - 5, 5,
                                ThemeColor(th, "battery"))>>]
         ELSE [level |-> self_level,
               calls |-> <<"battery.charging">>,
               drawn |-> <<>>]
    ELSE IF battery = self_level
         THEN [level |-> self_level,
               calls |-> <<"battery.charging", "battery.level">>,
               drawn |-> <<>>]
         ELSE LET stale == IconStale(self_level, battery)
                  rgb == IF stale /\ ~(battery > 5) THEN 63488 ELSE BarColor(battery)
                  icon == IF ~stale THEN <<>>
                          ELSE IF battery > 5
                               THEN <<Blit("battery", 239 - battery_icon_w - 5, 5,
                                           ThemeColor(th, "battery"))>>
                               ELSE <<Blit("battery", 239 - battery_icon_w - 5, 5,
                                           Rgb(63488))>>
              IN  [level |-> battery,
                   calls |-> <<"battery.charging", "battery.level">>,
                   drawn |-> icon \o BarFills(battery, rgb)]

\* the bar is painted whether or not the level changed
BatteryMeter_update_eager(self_level, th) ==
    IF charging
    THEN IF self_level # -1
         THEN [level |-> -1,
               calls |-> <<"battery.charging">>,
               drawn |-> <<Blit("battery", 239 - battery_icon_w - 5, 5,
                                ThemeColor(th, "battery"))>>]
         ELSE [level |-> self_level,
               calls |-> <<"battery.charging">>,
               drawn |-> <<>>]
    ELSE [level |-> battery,
          calls |-> <<"battery.charging", "battery.level">>,
          drawn |-> (IF IconStale(self_level, battery)
                     THEN <<Blit("battery", 239 - battery_icon_w - 5, 5,
                                 IF battery > 5 THEN ThemeColor(th, "battery")
                                                ELSE Rgb(63488))>>
                     ELSE <<>>)
                    \o BarFills(battery, BarColor(battery))]

\* the charge icon is blitted on every update while charging
BatteryMeter_update_reblit(self_level, th) ==
    IF charging
    THEN [level |-> -1,
          calls |-> <<"battery.charging">>,
          drawn |-> <<Blit("battery", 239 - battery_icon_w - 5, 5,
                           ThemeColor(th, "battery"))>>]
    ELSE IF battery = self_level
         THEN [level |-> self_level,
               calls |-> <<"battery.charging", "battery.level">>,
               drawn |-> <<>>]
         ELSE [level |-> battery,
               calls |-> <<"battery.charging", "battery.level">>,
               drawn |-> (IF IconStale(self_level, battery)
                          THEN <<Blit("battery", 239 - battery_icon_w - 5, 5,
                                      IF battery > 5 THEN ThemeColor(th, "battery")
                                                     ELSE Rgb(63488))>>
                          ELSE <<>>)
                         \o BarFills(battery, BarColor(battery))]

BatteryMeter_update(self_level, th) ==
    IF charging
    THEN IF self_level # -1
         THEN [level |-> -1,
               calls |-> <<"battery.charging">>,
               drawn |-> <<Blit("battery", 239 - battery_icon_w - 5, 5,
                                ThemeColor(th, "battery"))>>]
         ELSE [level |-> self_level,
               calls |-> <<"battery.charging">>,
               drawn |-> <<>>]
    ELSE IF battery = self_level
         THEN [level |-> self_level,
               calls |-> <<"battery.charging", "battery.level">>,
               drawn |-> <<>>]
         ELSE LET stale == IconStale(self_level, battery)
                  rgb == IF stale /\ ~(battery > 5) THEN 63488 ELSE BarColor(battery)
                  icon == IF ~stale THEN <<>>
                          ELSE IF battery > 5
                               THEN <<Blit("battery", 239 - battery_icon_w - 5, 5,
                                           ThemeColor(th, "battery"))>>
                               ELSE <<Blit("battery", 239 - battery_icon_w - 5, 5,
                                           Rgb(63488))>>
              IN  [level |-> battery,
                   calls |-> <<"battery.charging", "battery.level">>,
                   drawn |-> icon \o BarFills(battery, rgb)]

BatteryMeter_draw(th) == BatteryMeter_update(-2, th)

(***************************************************************************)
(* Clock                                                                   *)
(***************************************************************************)
\* the text is rendered whenever the time tuple differs
ClockStale_any(self_on_screen, now) == self_on_screen = None \/ now # self_on_screen

\* the HH:MM text is rendered when nothing is on screen or hour/minute differ
ClockStale(self_on_screen, now) ==
    \/ self_on_screen = None
    \/ now[5] # self_on_screen[5]
    \/ now[4] # self_on_screen[4]

\* a Clock.update() that reports a change only when hour or minute changed
Clock_update_minutes(self_on_screen, self_enabled, th) ==
    LET now == rtc IN
    IF ~ClockStale(self_on_screen, now)
    THEN [on_screen |-> self_on_screen, ret |-> RetNone,
          calls |-> <<"rtc.get_localtime">>, drawn |-> <<>>]
    ELSE [on_screen |-> now, ret |-> RetTime(now),
          calls |-> <<"rtc.get_localtime">>,
          drawn |-> IF self_enabled
                    THEN <<SetFont("sans28"),
                           SetColor(ThemeColor(th, "status-clock")),
                           String(Fmt02(now[4]) \o <<":">> \o Fmt02(now[5]), 52, 4, 138)>>
                    ELSE <<>>]

\* a Clock.update() that leaves on_screen alone while the clock is disabled
Clock_update_frozen(self_on_screen, self_enabled, th) ==
    LET now == rtc IN
    IF self_on_screen # None /\ self_on_screen = now
    THEN [on_screen |-> self_on_screen, ret |-> RetNone,
          calls |-> <<"rtc.get_localtime">>, drawn |-> <<>>]
    ELSE [on_screen |-> IF self_enabled THEN now ELSE self_on_screen,
          ret |-> RetTime(now),
          calls |-> <<"rtc.get_localtime">>,
          drawn |-> IF self_enabled /\ ClockStale(self_on_screen, now)
                    THEN <<SetFont("sans28"),
                           SetColor(ThemeColor(th, "status-clock")),
                           String(Fmt02(now[4]) \o <<":">> \o Fmt02(now[5]), 52, 4, 138)>>
                    ELSE <<>>]

Clock_update(self_on_screen, self_enabled, th) ==
    LET now == rtc IN
    IF self_on_screen # None /\ self_on_screen = now
    THEN [on_screen |-> self_on_screen, ret |-> RetNone,
          calls |-> <<"rtc.get_localtime">>, drawn |-> <<>>]
    ELSE [on_screen |-> now, ret |-> RetTime(now),
          calls |-> <<"rtc.get_localtime">>,
          drawn |-> IF self_enabled /\ ClockStale(self_on_screen, now)
                    THEN <<SetFont("sans28"),
                           SetColor(ThemeColor(th, "status-clock")),
                           String(Fmt02(now[4]) \o <<":">> \o Fmt02(now[5]), 52, 4, 138)>>
                    ELSE <<>>]

\* a Clock.draw() that keeps on_screen
Clock_draw_keep(self_enabled, th) == Clock_update(on_screen, self_enabled, th)

Clock_draw(self_enabled, th) == Clock_update(None, self_enabled, th)

(***************************************************************************)
(* NotificationBar                                                         *)
(***************************************************************************)
\* a NotificationBar.update() that leaves the empty alert slot as it was
NotificationBar_update_noclear(x, y, th) ==
    [calls |-> <<"connected", "notifications">>,
     drawn |->
        IF connected
        THEN <<Blit("bluetooth", x + 5, y + 5, ThemeColor(th, "ble"))>>
             \o (IF notifications
                 THEN <<Blit("alert", x + 22 + 5, y + 5, ThemeColor(th, "notify-icon"))>>
                 ELSE <<>>)
        ELSE IF notifications
             THEN <<Blit("alert", x, y, ThemeColor(th, "notify-icon")),
                    Fill(Rgb(0), x + 30, y, 22, 32)>>
             ELSE <<Fill(Rgb(0), x, y, 52, 32)>>]

NotificationBar_update(x, y, th) ==
    [calls |-> <<"connected", "notifications">>,
     drawn |->
        IF connected
        THEN <<Blit("bluetooth", x + 5, y + 5, ThemeColor(th, "ble"))>>
             \o (IF notifications
                 THEN <<Blit("alert", x + 22 + 5, y + 5, ThemeColor(th, "notify-icon"))>>
                 ELSE <<Fill(Rgb(0), x + 22 + 5, y + 5, 30, 32)>>)
        ELSE IF notifications
             THEN <<Blit("alert", x, y, ThemeColor(th, "notify-icon")),
                    Fill(Rgb(0), x + 30, y, 22, 32)>>
             ELSE <<Fill(Rgb(0), x, y, 52, 32)>>]

NotificationBar_draw(x, y, th) == NotificationBar_update(x, y, th)

(***************************************************************************)
(* StatusBar                                                               *)
(***************************************************************************)
\* a StatusBar.update() that cascades whether or not the time changed
StatusBar_update_eager(self_on_screen, self_enabled, self_level, th) ==
    LET c == Clock_update(self_on_screen, self_enabled, th)
        m == BatteryMeter_update(self_level, th)
        n == NotificationBar_update(0, 0, th)
    IN  [on_screen |-> c.on_screen, level |-> m.level, ret |-> c.ret,
         calls |-> <<"Clock.update">> \o c.calls
                   \o <<"BatteryMeter.update">> \o m.calls
                   \o <<"NotificationBar.update">> \o n.calls,
         drawn |-> c.drawn \o m.drawn \o n.drawn]

\* a StatusBar.update() that updates the clock and nothing else
StatusBar_update_clockonly(self_on_screen, self_enabled, self_level, th) ==
    LET c == Clock_update(self_on_screen, self_enabled, th)
    IN  [on_screen |-> c.on_screen, level |-> self_level, ret |-> c.ret,
         calls |-> <<"Clock.update">> \o c.calls,
         drawn |-> c.drawn]

StatusBar_update(self_on_screen, self_enabled, self_level, th) ==
    LET c == Clock_update(self_on_screen, self_enabled, th)
        m == BatteryMeter_update(self_level, th)
        n == NotificationBar_update(0, 0, th)
    IN  IF Truthy(c.ret)
        THEN [on_screen |-> c.on_screen, level |-> m.level, ret |-> c.ret,
              calls |-> <<"Clock.update">> \o c.calls
                        \o <<"BatteryMeter.update">> \o m.calls
                        \o <<"NotificationBar.update">> \o n.calls,
              drawn |-> c.drawn \o m.drawn \o n.drawn]
        ELSE [on_screen |-> c.on_screen, level |-> self_level, ret |-> c.ret,
              calls |-> <<"Clock.update">> \o c.calls,
              drawn |-> c.drawn]

StatusBar_draw(self_enabled, th) ==
    LET c == Clock_draw(self_enabled, th)
        m == BatteryMeter_draw(th)
        n == NotificationBar_draw(0, 0, th)
    IN  [on_screen |-> c.on_screen, level |-> m.level, ret |-> RetNone,
         calls |-> <<"Clock.draw">> \o c.calls
                   \o <<"BatteryMeter.draw">> \o m.calls
                   \o <<"NotificationBar.draw">> \o n.calls,
         drawn |-> c.drawn \o m.drawn \o n.drawn]

(***************************************************************************)
(* ClockApp (apps/clock.py): self is [has_min, min]; has_min is FALSE      *)
(* while _min was never assigned; the status bar is wasp.system.bar        *)
(***************************************************************************)
\* fonts.clock digit bitmaps
DIGITS == <<"clock_0", "clock_1", "clock_2", "clock_3", "clock_4",
            "clock_5", "clock_6", "clock_7", "clock_8", "clock_9">>

MONTH == <<<<"J", "A", "N">>, <<"F", "E", "B">>, <<"M", "A", "R">>, <<"A", "P", "R">>,
           <<"M", "A", "Y">>, <<"J", "U", "N">>, <<"J", "U", "L">>, <<"A", "U", "G">>,
           <<"S", "E", "P">>, <<"O", "C", "T">>, <<"N", "O", "V">>, <<"D", "E", "C">>>>

\* the changeable parts of the watch face for the time tuple now
ClockFace(now, hi) ==
    <<Blit(DIGITS[(now[5] % 10) + 1], 190 - 5, 80, hi),
      Blit(DIGITS[(now[5] \div 10) + 1], 140 - 5, 80, hi),
      Blit(DIGITS[(now[4] % 10) + 1], 70 - 5, 80, hi),
      Blit(DIGITS[(now[4] \div 10) + 1], 20 - 5, 80, hi),
      SetColor(hi),
      String(Str(now[3]) \o <<" ">> \o MONTH[now[2]] \o <<" ">> \o Str(now[1]),
             0, 180, 240)>>

\* _draw(redraw); reading _min before it was ever assigned raises
\* AttributeError
ClockApp_draw(self, redraw, self_on_screen, self_enabled, self_level, th) ==
    LET hi == ThemeColor(th, "bright")
        lo == ThemeColor(th, "mid")
        head == <<LightenCall(lo, Rgb(1))>>
    IN  IF redraw
        THEN LET now == rtc
                 b == StatusBar_draw(self_enabled, th)
             IN  [self |-> [has_min |-> TRUE, min |-> now[5]], on_screen |-> b.on_screen, level |-> b.level,
                  ret |-> RetNone,
                  calls |-> <<"rtc.get_localtime", "StatusBar.draw">> \o b.calls,
                  drawn |-> head \o <<FillAll, Blit("clock_colon", 120 - 5, 80, hi)>>
                            \o b.drawn \o ClockFace(now, hi)]
        ELSE LET b == StatusBar_update(self_on_screen, self_enabled, self_level, th)
                 now == b.ret.t
             IN  IF ~Truthy(b.ret)
                 THEN [self |-> self, on_screen |-> b.on_screen, level |-> b.level,
                       ret |-> RetNone,
                       calls |-> <<"StatusBar.update">> \o b.calls,
                       drawn |-> head \o b.drawn]
                 ELSE IF ~self.has_min
                 THEN [self |-> self, on_screen |-> b.on_screen, level |-> b.level,
                       ret |-> [kind |-> "raise", b |-> FALSE, t |-> <<>>],
                       calls |-> <<"StatusBar.update">> \o b.calls,
                       drawn |-> head \o b.drawn]
                 ELSE IF self.min = now[5]
                 THEN [self |-> self, on_screen |-> b.on_screen, level |-> b.level,
                       ret |-> RetNone,
                       calls |-> <<"StatusBar.update">> \o b.calls,
                       drawn |-> head \o b.drawn]
                 ELSE [self |-> [has_min |-> TRUE, min |-> now[5]], on_screen |-> b.on_screen, level |-> b.level,
                       ret |-> RetNone,
                       calls |-> <<"StatusBar.update">> \o b.calls,
                       drawn |-> head \o b.drawn \o ClockFace(now, hi)]

(***************************************************************************)
(* ScrollIndicator                                                         *)
(***************************************************************************)
ScrollIndicator_update(self, th) ==
    LET color == ThemeColor(th, "scroll-indicator") IN
    [drawn |-> (IF self.up
                THEN <<Blit("up_arrow", self.pos[1], self.pos[2], color)>> ELSE <<>>)
               \o (IF self.down
                   THEN <<Blit("down_arrow", self.pos[1], self.pos[2] + 13, color)>>
                   ELSE <<>>)]

ScrollIndicator_draw(self, th) == ScrollIndicator_update(self, th)

(***************************************************************************)
(* Button: im is (x, y, w, h, label); an event is (kind, x, y)             *)
(***************************************************************************)
Button_draw(im, th) ==
    LET bg == Darken(ThemeColor(th, "ui"))
        frame == ThemeColor(th, "mid")
        txt == ThemeColor(th, "bright")
    IN  [drawn |-> <<DarkenCall(ThemeColor(th, "ui")),
                     Fill(bg, im[1], im[2], im[3], im[4]),
                     SetColor2(txt, bg),
                     SetFont("sans24"),
                     String(im[5], im[1], im[2] + (im[4] \div 2) - 12, im[3]),
                     Fill(frame, im[1], im[2], im[3], 2),
                     Fill(frame, im[1], im[2] + im[4] - 2, im[3], 2),
                     Fill(frame, im[1], im[2], 2, im[4]),
                     Fill(frame, im[1] + im[3] - 2, im[2], 2, im[4])>>]

Button_touch_exact(im, event) ==
    LET x == event[2]
        y == event[3]
        x1 == im[1]
        x2 == x1 + im[3]
        y1 == im[2]
        y2 == y1 + im[4]
    IN  [ret |-> RetBool(x >= x1 /\ x < x2 /\ y >= y1 /\ y < y2), drawn |-> <<>>]

Button_touch(im, event) ==
    LET x == event[2]
        y == event[3]
        x1 == im[1] - 10
        x2 == x1 + im[3] + 20
        y1 == im[2] - 10
        y2 == y1 + im[4] + 20
    IN  [ret |-> RetBool(x >= x1 /\ x < x2 /\ y >= y1 /\ y < y2), drawn |-> <<>>]

(***************************************************************************)
(* Checkbox: self is [im |-> (x, y, label), state]; label <<>> is None     *)
(***************************************************************************)
\* a Checkbox.update() that paints with the colours of the theme that was
\* active when the Checkbox was made
Checkbox_update_cached(self, th) ==
    LET im == self.im
        ui == ThemeColor(0, "ui")
        contrast == ThemeColor(0, "contrast")
        x == IF im[3] # <<>> THEN 239 - 32 - 4 ELSE im[1]
    IN  [drawn |-> IF self.state
                   THEN <<LightenCall(ui, contrast),
                          Blit3("checkbox", x, im[2],
                                Lighten(ui, contrast), ui, Lighten(ui, contrast))>>
                   ELSE <<Blit3("checkbox", x, im[2],
                                ThemeColor(0, "mid"), Rgb(0), Rgb(0))>>]

Checkbox_update(self, th) ==
    LET im == self.im
        ui == ThemeColor(th, "ui")
        contrast == ThemeColor(th, "contrast")
        x == IF im[3] # <<>> THEN 239 - 32 - 4 ELSE im[1]
    IN  [drawn |-> IF self.state
                   THEN <<LightenCall(ui, contrast),
                          Blit3("checkbox", x, im[2],
                                Lighten(ui, contrast), ui, Lighten(ui, contrast))>>
                   ELSE <<Blit3("checkbox", x, im[2],
                                ThemeColor(th, "mid"), Rgb(0), Rgb(0))>>]

Checkbox_draw(self, th) ==
    LET im == self.im IN
    [drawn |-> (IF im[3] # <<>>
                THEN <<SetColor(ThemeColor(th, "bright")),
                       SetFont("sans24"),
                       String(im[3], im[1], im[2] + 6, 0)>>
                ELSE <<>>)
               \o Checkbox_update(self, th).drawn]

Checkbox_touch_wide(self, event, th) ==
    LET y == event[3]
        im == self.im
    IN  IF y >= im[2] /\ y <= im[2] + 40
        THEN LET new == [self EXCEPT !.state = ~self.state] IN
             [self |-> new, ret |-> RetBool(TRUE), drawn |-> Checkbox_update(new, th).drawn]
        ELSE [self |-> self, ret |-> RetBool(FALSE), drawn |-> <<>>]

Checkbox_touch(self, event, th) ==
    LET y == event[3]
        im == self.im
    IN  IF y >= im[2] /\ y < im[2] + 40
        THEN LET new == [self EXCEPT !.state = ~self.state] IN
             [self |-> new, ret |-> RetBool(TRUE), drawn |-> Checkbox_update(new, th).drawn]
        ELSE [self |-> self, ret |-> RetBool(FALSE), drawn |-> <<>>]

(***************************************************************************)
(* Slider: self is [value, steps, x, y, color, lowlight]                   *)
(***************************************************************************)
SLIDER_KNOB_DIAMETER == 40
SLIDER_KNOB_RADIUS == SLIDER_KNOB_DIAMETER \div 2
SLIDER_WIDTH == 220
SLIDER_TRACK == SLIDER_WIDTH - SLIDER_KNOB_DIAMETER
SLIDER_TRACK_HEIGHT == 8
SLIDER_TRACK_Y1 == SLIDER_KNOB_RADIUS - (SLIDER_TRACK_HEIGHT \div 2)
SLIDER_TRACK_Y2 == SLIDER_TRACK_Y1 + SLIDER_TRACK_HEIGHT

\* one side of the track: w pixels from sx; the half next to the end cap is
\* cleared, the rest is painted in c
TrackLeft(x, y, w, c) ==
    IF w > 0
    THEN <<Fill(Rgb(0), x, y, w, SLIDER_TRACK_Y1)>>
         \o (IF w > SLIDER_KNOB_RADIUS
             THEN <<Fill(Rgb(0), x, y + SLIDER_TRACK_Y1,
                         SLIDER_KNOB_RADIUS, SLIDER_TRACK_HEIGHT),
                    Fill(c, x + SLIDER_KNOB_RADIUS, y + SLIDER_TRACK_Y1,
                         w - SLIDER_KNOB_RADIUS, SLIDER_TRACK_HEIGHT)>>
             ELSE <<Fill(Rgb(0), x, y + SLIDER_TRACK_Y1, w, SLIDER_TRACK_HEIGHT)>>)
         \o <<Fill(Rgb(0), x, y + SLIDER_TRACK_Y2, w, SLIDER_TRACK_Y1)>>
    ELSE <<>>

TrackRight(sx, y, w, c) ==
    IF w > 0
    THEN <<Fill(Rgb(0), sx, y, w, SLIDER_TRACK_Y1)>>
         \o (IF w > SLIDER_KNOB_RADIUS
             THEN <<Fill(Rgb(0), sx + w - SLIDER_KNOB_RADIUS, y + SLIDER_TRACK_Y1,
                         SLIDER_KNOB_RADIUS, SLIDER_TRACK_HEIGHT),
                    Fill(c, sx, y + SLIDER_TRACK_Y1,
                         w - SLIDER_KNOB_RADIUS, SLIDER_TRACK_HEIGHT)>>
             ELSE <<Fill(Rgb(0), sx, y + SLIDER_TRACK_Y1, w, SLIDER_TRACK_HEIGHT)>>)
         \o <<Fill(Rgb(0), sx, y + SLIDER_TRACK_Y2, w, SLIDER_TRACK_Y1)>>
    ELSE <<>>

Slider_draw(self, th) ==
    LET color == IF self.color = NoColor THEN ThemeColor(th, "ui") ELSE self.color
        light == IF self.lowlight = NoColor
                 THEN Lighten(color, ThemeColor(th, "contrast"))
                 ELSE self.lowlight
        knob_x == self.x + ((SLIDER_TRACK * self.value) \div (self.steps - 1))
        w == knob_x - self.x
    IN  [self |-> [self EXCEPT !.color = color, !.lowlight = light],
         drawn |-> (IF self.lowlight = NoColor
                    THEN <<LightenCall(color, ThemeColor(th, "contrast"))>> ELSE <<>>)
                   \o <<Blit("knob", knob_x, self.y, color)>>
                   \o TrackLeft(self.x, self.y, w, color)
                   \o TrackRight(knob_x + SLIDER_KNOB_DIAMETER, self.y,
                                 SLIDER_WIDTH - SLIDER_KNOB_DIAMETER - w, light)]

Slider_update(self, th) == Slider_draw(self, th)

\* int(q) of Python for the quotient n/d, d > 0: truncation towards zero
Trunc(n, d) == IF n >= 0 THEN n \div d ELSE -((-n) \div d)

Slider_touch_floor(self, event) ==
    LET tx == event[2]
        q == Trunc((tx - self.x - 20) * (self.steps - 1), SLIDER_TRACK)
        v == IF q < 0 THEN 0
             ELSE IF q >= self.steps THEN self.steps - 1
             ELSE q
    IN  [self |-> [self EXCEPT !.value = v], ret |-> RetNone, drawn |-> <<>>]

\* _stepsize is the float _SLIDER_TRACK / (steps-1); with
\* threshold = x + 20 - _stepsize/2 the quotient (tx - threshold) / _stepsize
\* is (2*(tx - x - 20)*(steps-1) + _SLIDER_TRACK) / (2*_SLIDER_TRACK)
Slider_touch(self, event) ==
    LET tx == event[2]
        q == Trunc(2 * (tx - self.x - 20) * (self.steps - 1) + SLIDER_TRACK,
                   2 * SLIDER_TRACK)
        v == IF q < 0 THEN 0
             ELSE IF q >= self.steps THEN self.steps - 1
             ELSE q
    IN  [self |-> [self EXCEPT !.value = v], ret |-> RetNone, drawn |-> <<>>]

(***************************************************************************)
(* Spinner: self is [im |-> (x, y, mn, mx, field), value]                  *)
(***************************************************************************)
\* str(n)
PyStr(n) == IF n < 0 THEN <<"-">> \o Str(-n) ELSE Str(n)

RECURSIVE Zeros(_)
Zeros(k) == IF k <= 0 THEN <<>> ELSE <<"0">> \o Zeros(k - 1)

Spinner_update(self, th) ==
    LET im == self.im
        s == PyStr(self.value)
        padded == IF Len(s) < im[5] THEN Zeros(im[5] - Len(s)) \o s ELSE s
    IN  [drawn |-> <<SetColor(ThemeColor(th, "bright")),
                     SetFont("sans28"),
                     String(padded, im[1], im[2] + 60 - 14, 60)>>]

Spinner_draw(self, th) ==
    LET im == self.im
        ui == ThemeColor(th, "ui")
        contrast == ThemeColor(th, "contrast")
        fg == Lighten(ui, contrast)
    IN  [drawn |-> <<LightenCall(ui, contrast),
                     Blit("up_arrow", im[1] + 30 - 8, im[2] + 20, fg),
                     Blit("down_arrow", im[1] + 30 - 8, im[2] + 120 - 20 - 9, fg)>>
                   \o Spinner_update(self, th).drawn]

\* a Spinner.touch() that repaints through draw(), arrows included
Spinner_touch_redraw(self, event, th) ==
    LET x == event[2]
        y == event[3]
        im == self.im
    IN  IF x >= im[1] /\ x < im[1] + 60 /\ y >= im[2] /\ y < im[2] + 120
        THEN LET v == IF y < im[2] + 60
                      THEN (IF self.value + 1 > im[4] THEN im[3] ELSE self.value + 1)
                      ELSE (IF self.value - 1 < im[3] THEN im[4] - 1 ELSE self.value - 1)
                 new == [self EXCEPT !.value = v]
             IN  [self |-> new, ret |-> RetBool(TRUE), drawn |-> Spinner_draw(new, th).drawn]
        ELSE [self |-> self, ret |-> RetBool(FALSE), drawn |-> <<>>]

Spinner_touch(self, event, th) ==
    LET x == event[2]
        y == event[3]
        im == self.im
    IN  IF x >= im[1] /\ x < im[1] + 60 /\ y >= im[2] /\ y < im[2] + 120
        THEN LET v == IF y < im[2] + 60
                      THEN (IF self.value + 1 > im[4] THEN im[3] ELSE self.value + 1)
                      ELSE (IF self.value - 1 < im[3] THEN im[4] - 1 ELSE self.value - 1)
                 new == [self EXCEPT !.value = v]
             IN  [self |-> new, ret |-> RetBool(TRUE), drawn |-> Spinner_update(new, th).drawn]
        ELSE [self |-> self, ret |-> RetBool(FALSE), drawn |-> <<>>]

(***************************************************************************)
(* ConfirmationView: self is [active, value]                               *)
(***************************************************************************)
yes_im == <<20, 140, 90, 45, <<"Y", "e", "s">>>>

no_im == <<130, 140, 90, 45, <<"N", "o">>>>

\* a ConfirmationView.draw() that unmutes before it draws the buttons
ConfirmationView_draw_early(self, message, th) ==
    [self |-> [self EXCEPT !.active = TRUE],
     calls |-> <<"Button.draw:yes", "Button.draw:no">>,
     drawn |-> <<Mute(TRUE),
                 SetColor(ThemeColor(th, "bright")),
                 SetFont("sans24"),
                 FillAll,
                 String(message, 0, 60, 0),
                 Mute(FALSE)>>
               \o Button_draw(yes_im, th).drawn
               \o Button_draw(no_im, th).drawn]

ConfirmationView_draw(self, message, th) ==
    [self |-> [self EXCEPT !.active = TRUE],
     calls |-> <<"Button.draw:yes", "Button.draw:no">>,
     drawn |-> <<Mute(TRUE),
                 SetColor(ThemeColor(th, "bright")),
                 SetFont("sans24"),
                 FillAll,
                 String(message, 0, 60, 0)>>
               \o Button_draw(yes_im, th).drawn
               \o Button_draw(no_im, th).drawn
               \o <<Mute(FALSE)>>]

\* a touch() that tests the buttons whether or not the view is active
ConfirmationView_touch_always(self, event) ==
    IF Truthy(Button_touch(yes_im, event).ret)
    THEN [self |-> [active |-> FALSE, value |-> TRUE], ret |-> RetBool(TRUE),
          calls |-> <<"Button.touch:yes">>]
    ELSE IF Truthy(Button_touch(no_im, event).ret)
         THEN [self |-> [active |-> FALSE, value |-> FALSE], ret |-> RetBool(TRUE),
               calls |-> <<"Button.touch:yes", "Button.touch:no">>]
         ELSE [self |-> self, ret |-> RetBool(FALSE),
               calls |-> <<"Button.touch:yes", "Button.touch:no">>]

ConfirmationView_touch_sticky(self, event) ==
    IF ~self.active
    THEN [self |-> self, ret |-> RetBool(FALSE), calls |-> <<>>]
    ELSE IF Truthy(Button_touch(yes_im, event).ret)
         THEN [self |-> [active |-> TRUE, value |-> TRUE], ret |-> RetBool(TRUE),
               calls |-> <<"Button.touch:yes">>]
         ELSE IF Truthy(Button_touch(no_im, event).ret)
              THEN [self |-> [active |-> TRUE, value |-> FALSE], ret |-> RetBool(TRUE),
                    calls |-> <<"Button.touch:yes", "Button.touch:no">>]
              ELSE [self |-> self, ret |-> RetBool(FALSE),
                    calls |-> <<"Button.touch:yes", "Button.touch:no">>]

ConfirmationView_touch_anywhere(self, event) ==
    IF ~self.active
    THEN [self |-> self, ret |-> RetBool(FALSE), calls |-> <<>>]
    ELSE IF Truthy(Button_touch(yes_im, event).ret)
         THEN [self |-> [active |-> FALSE, value |-> TRUE], ret |-> RetBool(TRUE),
               calls |-> <<"Button.touch:yes">>]
         ELSE IF Truthy(Button_touch(no_im, event).ret)
              THEN [self |-> [active |-> FALSE, value |-> FALSE], ret |-> RetBool(TRUE),
                    calls |-> <<"Button.touch:yes", "Button.touch:no">>]
              ELSE [self |-> [self EXCEPT !.active = FALSE], ret |-> RetBool(FALSE),
                    calls |-> <<"Button.touch:yes", "Button.touch:no">>]

ConfirmationView_touch(self, event) ==
    IF ~self.active
    THEN [self |-> self, ret |-> RetBool(FALSE), calls |-> <<>>]
    ELSE IF Truthy(Button_touch(yes_im, event).ret)
         THEN [self |-> [active |-> FALSE, value |-> TRUE], ret |-> RetBool(TRUE),
               calls |-> <<"Button.touch:yes">>]
         ELSE IF Truthy(Button_touch(no_im, event).ret)
              THEN [self |-> [active |-> FALSE, value |-> FALSE], ret |-> RetBool(TRUE),
                    calls |-> <<"Button.touch:yes", "Button.touch:no">>]
              ELSE [self |-> self, ret |-> RetBool(FALSE),
                    calls |-> <<"Button.touch:yes", "Button.touch:no">>]

(***************************************************************************)
(* Card: self is [icon, title, state, on_icon]; icon "" is None; on_icon   *)
(* Unset is an attribute that was never assigned; is_first and is_last     *)
(* stay True                                                               *)
(***************************************************************************)
Unset == "<unset>"

\* draw.wrap(title, 160) of a title that fits on one line: (0, len(title))
Card_draw(self, all, th) ==
    [drawn |-> (IF all THEN <<Fill(Rgb(65535), 20, 20, 200, 200)>> ELSE <<>>)
               \o <<SetColor2(Rgb(65535), Rgb(65535))>>
               \o (IF self.icon # "" THEN <<Blit(self.icon, 20 + 10, 20 + 10, NoColor)>>
                                     ELSE <<>>)
               \o (IF all /\ self.title # <<>>
                   THEN <<SetColor2(Rgb(0), Rgb(65535)),
                          SetFont("sans24"),
                          String(self.title, 20 + 20, 20 + 100, 0)>>
                   ELSE <<>>)
               \o <<SetColor2(ThemeColor(th, "mid"), Rgb(65535)),
                    String(<<self.state>>, 20 + 20, 20 + 148 + 12, 0)>>]

\* reading self.on_icon before it was ever assigned raises AttributeError,
\* after self.state was already set to "On"
Card_touch(self, th) ==
    IF self.state = "On"
    THEN LET new == [self EXCEPT !.state = "Off", !.on_icon = self.icon,
                                 !.icon = "light_off_50"]
         IN  [self |-> new, ret |-> RetBool(TRUE), drawn |-> Card_draw(new, FALSE, th).drawn]
    ELSE IF self.on_icon = Unset
         THEN [self |-> [self EXCEPT !.state = "On"],
               ret |-> [kind |-> "raise", b |-> FALSE, t |-> <<>>],
               drawn |-> <<>>]
         ELSE LET new == [self EXCEPT !.state = "On", !.icon = self.on_icon]
              IN  [self |-> new, ret |-> RetBool(TRUE),
                   drawn |-> Card_draw(new, FALSE, th).drawn]

(***************************************************************************)
(* The host's dispatch pass: one touch event is offered to the interactive *)
(* widgets in order, until one reports it consumed.  Each entry of `pass`  *)
(* is one touch() call: the widget, its return value, and whether it       *)
(* changed the widget's state or issued a painting call.                   *)
(***************************************************************************)
button_im == <<150, 10, 80, 40, <<"O", "k">>>>

Handled(name, before, r) ==
    [widget |-> name, ret |-> r.ret,
     changed |-> r.self # before, painted |-> Len(r.drawn) > 0]

\* the number of widgets a pass calls: up to the first one that consumed the
\* event (or raised)
PassLength(rets) ==
    LET stops == {i \in 1..Len(rets) : Truthy(rets[i]) \/ rets[i].kind = "raise"}
    IN  IF stops = {} THEN Len(rets) ELSE CHOOSE i \in stops : \A j \in stops : i <= j

\* the order of the pass: the modal ConfirmationView, then Button, Checkbox,
\* Slider, Spinner, Card
Dispatch(event, self_confirm, self_checkbox, self_slider, self_spinner, self_card, th) ==
    LET v == ConfirmationView_touch(self_confirm, event)
        b == Button_touch(button_im, event)
        c == Checkbox_touch(self_checkbox, event, th)
        s == Slider_touch(self_slider, event)
        p == Spinner_touch(self_spinner, event, th)
        k == Card_touch(self_card, th)
        all == <<[widget |-> "ConfirmationView", ret |-> v.ret,
                  changed |-> v.self # self_confirm, painted |-> FALSE],
                 [widget |-> "Button", ret |-> b.ret,
                  changed |-> FALSE, painted |-> FALSE],
                 Handled("Checkbox", self_checkbox, c),
                 Handled("Slider", self_slider, s),
                 Handled("Spinner", self_spinner, p),
                 Handled("Card", self_card, k)>>
        n == PassLength([i \in 1..6 |-> all[i].ret])
    IN  [confirm |-> v.self,
         checkbox |-> IF n >= 3 THEN c.self ELSE self_checkbox,
         slider |-> IF n >= 4 THEN s.self ELSE self_slider,
         spinner |-> IF n >= 5 THEN p.self ELSE self_spinner,
         card |-> IF n >= 6 THEN k.self ELSE self_card,
         pass |-> SubSeq(all, 1, n),
         calls |-> v.calls,
         drawn |-> (IF n >= 3 THEN c.drawn ELSE <<>>)
                   \o (IF n >= 5 THEN p.drawn ELSE <<>>)
                   \o (IF n >= 6 THEN k.drawn ELSE <<>>)]

(***************************************************************************)
(* State machine                                                           *)
(***************************************************************************)
\* the widget state a method call starts from
Snapshot == [level |-> level, on_screen |-> on_screen, enabled |-> enabled,
             clockapp |-> clockapp,
             button |-> button, scroll |-> scroll, checkbox |-> checkbox, slider |-> slider,
             spinner |-> spinner, confirm |-> confirm, card |-> card]

NoEvent == <<"", 0, 0>>

\* touch events (kind, x, y) offered by the input driver
Events == {<<"touch", x, y>> : x \in TouchXs, y \in TouchYs}

\* Slider.touch reads event[1] only
SliderEvents == {<<"touch", x, y>> : x \in TouchXs \cup SliderXs, y \in {0, 100}}

DispatchEvents == {<<"touch", x, y>> : x \in DispatchXs, y \in DispatchYs}

\* the display: of the battery meter, the colour of the icon last blitted
\* ("none" before the first) and the rows of the 22 row track that are filled,
\* row 0 at the top; of the clock face, the four large digits (tens and
\* units of the hour, tens and units of the minute), -1 where none is shown
BlankScreen == [icon |-> "none", rows |-> {}, digits |-> <<-1, -1, -1, -1>>]

\* the place among the four large digits that a blit at column x paints
DigitPlace(x) ==
    CASE x = 20 - 5 -> 1 [] x = 70 - 5 -> 2 [] x = 140 - 5 -> 3 [] x = 190 - 5 -> 4
      [] OTHER -> 0

\* one Drawing Surface call applied to the display: blitting the battery icon
\* overwrites the whole icon, the track inside it included; a fill of the
\* track's columns clears or fills the rows it covers
PaintCall(scr, d) ==
    LET w == battery_icon_w - 4
        x == 239 - 7 - w
    IN  IF d = FillAll
        THEN BlankScreen
        ELSE IF d.call = "blit" /\ d.icon = "battery"
        THEN [scr EXCEPT !.icon = (IF d.fg = Rgb(63488) THEN "warning"
                                   ELSE IF d.fg.src = "theme" /\ d.fg.role = "battery"
                                        THEN "battery"
                                   ELSE "other"),
                         !.rows = {}]
        ELSE IF d.call = "blit" /\ d.y = 80 /\ DigitPlace(d.x) # 0
                /\ \E n \in 0..9 : DIGITS[n + 1] = d.icon
        THEN [scr EXCEPT !.digits[DigitPlace(d.x)] = CHOOSE n \in 0..9 : DIGITS[n + 1] = d.icon]
        ELSE IF d.call = "fill" /\ d.x = x /\ d.w = w
             THEN LET covered == {r \in 0..21 : d.y - 9 <= r /\ r < d.y - 9 + d.h} IN
                  [scr EXCEPT !.rows = IF d.bg = Rgb(0) THEN @ \ covered
                                                        ELSE @ \cup covered]
             ELSE scr

RECURSIVE Paint(_, _)
Paint(scr, ds) == IF ds = <<>> THEN scr ELSE Paint(PaintCall(scr, Head(ds)), Tail(ds))

Observe(name, r, cs, ds) ==
    /\ op' = name
    /\ ev' = NoEvent
    /\ ret' = r
    /\ calls' = cs
    /\ drawn' = ds
    /\ pass' = <<>>
    /\ pre' = Snapshot
    /\ screen' = Paint(screen, ds)

ObserveTouch(name, e, r, cs, ds, ps) ==
    /\ op' = name
    /\ ev' = e
    /\ ret' = r
    /\ calls' = cs
    /\ drawn' = ds
    /\ pass' = ps
    /\ pre' = Snapshot
    /\ screen' = Paint(screen, ds)

\* a provider changed between two method calls
EnvStep == Observe("env", RetNone, <<>>, <<>>)

InitScene(s) ==
    /\ scene = s
    /\ rtc = TimeTuple(0, 0, 0)
    /\ charging = FALSE
    /\ battery = 100
    /\ connected = FALSE
    /\ notifications = FALSE
    /\ theme = 0
    /\ level = -2
    /\ on_screen = None
    /\ enabled = TRUE
    /\ \E im \in (IF s = "Button" THEN {yes_im, no_im} ELSE {yes_im}) : button = im
    /\ scroll = [pos |-> <<240 - 18, 240 - 24>>, up |-> TRUE, down |-> TRUE]
    /\ \E label \in (IF s = "Checkbox" THEN {<<>>, <<"A", "M">>} ELSE {<<>>}) :
          checkbox = [im |-> <<0, 40, label>>, state |-> FALSE]
    /\ \E steps \in (IF s = "Slider" THEN SliderSteps ELSE {5}) :
          slider = [value |-> 0, steps |-> steps, x |-> 10, y |-> 90,
                    color |-> NoColor, lowlight |-> NoColor]
    /\ spinner = [im |-> <<90, 100, 0, 3, 2>>, value |-> 0]
    /\ confirm = [active |-> FALSE, value |-> FALSE]
    /\ \E state \in (IF s \in {"Card", "Dispatch"} THEN {"On", "Off"} ELSE {"On"}),
          icon \in (IF s = "Card" THEN {"light_on", ""} ELSE {"light_on"}) :
          card = [icon |-> icon, title |-> <<"L", "a", "m", "p">>,
                  state |-> state, on_icon |-> Unset]
    /\ clockapp = [has_min |-> FALSE, min |-> 0]
    /\ op = "init"
    /\ ev = NoEvent
    /\ ret = RetNone
    /\ calls = <<>>
    /\ drawn = <<>>
    /\ pass = <<>>
    /\ pre = Snapshot
    /\ screen = BlankScreen

\* the RTC moves to another time (it runs, or it is set)
Tick ==
    /\ scene \in {"Clock", "StatusBar", "ClockApp"}
    /\ \E t \in Times : t # rtc /\ rtc' = t
    /\ EnvStep
    /\ UNCHANGED <<scene, charging, battery, connected, notifications, theme, widgetVars>>

\* the power source reports another reading
SetBattery ==
    /\ scene \in {"BatteryMeter", "StatusBar", "ClockApp"}
    /\ \E c \in BOOLEAN, l \in (IF scene = "BatteryMeter" THEN Levels ELSE BarLevels) :
          /\ <<c, l>> # <<charging, battery>>
          /\ charging' = c
          /\ battery' = l
    /\ EnvStep
    /\ UNCHANGED <<scene, rtc, connected, notifications, theme, widgetVars>>

\* the connection or the pending notifications change
SetLink ==
    /\ scene \in {"NotificationBar", "StatusBar"}
    /\ \E c \in BOOLEAN, n \in BOOLEAN :
          /\ <<c, n>> # <<connected, notifications>>
          /\ connected' = c
          /\ notifications' = n
    /\ EnvStep
    /\ UNCHANGED <<scene, rtc, charging, battery, theme, widgetVars>>

\* the user selects another theme
SetTheme ==
    /\ \E t \in Themes : t # theme /\ theme' = t
    /\ EnvStep
    /\ UNCHANGED <<scene, rtc, charging, battery, connected, notifications, widgetVars>>

BatteryMeterDraw ==
    /\ scene = "BatteryMeter"
    /\ \E r \in {BatteryMeter_draw(theme)} :
          /\ level' = r.level
          /\ Observe("BatteryMeter.draw", RetNone, r.calls, r.drawn)
    /\ UNCHANGED <<scene, envVars, on_screen, enabled, touchVars, appVars>>

BatteryMeterUpdate ==
    /\ scene = "BatteryMeter"
    /\ \E r \in {BatteryMeter_update(level, theme)} :
          /\ level' = r.level
          /\ Observe("BatteryMeter.update", RetNone, r.calls, r.drawn)
    /\ UNCHANGED <<scene, envVars, on_screen, enabled, touchVars, appVars>>

ClockDraw ==
    /\ scene = "Clock"
    /\ \E r \in {Clock_draw(enabled, theme)} :
          /\ on_screen' = r.on_screen
          /\ Observe("Clock.draw", RetNone, r.calls, r.drawn)
    /\ UNCHANGED <<scene, envVars, level, enabled, touchVars, appVars>>

ClockUpdate ==
    /\ scene = "Clock"
    /\ \E r \in {Clock_update(on_screen, enabled, theme)} :
          /\ on_screen' = r.on_screen
          /\ Observe("Clock.update", r.ret, r.calls, r.drawn)
    /\ UNCHANGED <<scene, envVars, level, enabled, touchVars, appVars>>

\* Clock.enabled is a public attribute; StatusBar.clock is its setter
SetEnabled ==
    /\ scene \in {"Clock", "StatusBar"}
    /\ enabled' = ~enabled
    /\ Observe("clock.setter", RetNone, <<>>, <<>>)
    /\ UNCHANGED <<scene, envVars, level, on_screen, touchVars, appVars>>

NotificationBarDraw ==
    /\ scene = "NotificationBar"
    /\ \E r \in {NotificationBar_draw(0, 0, theme)} :
          Observe("NotificationBar.draw", RetNone, r.calls, r.drawn)
    /\ UNCHANGED <<scene, envVars, widgetVars>>

NotificationBarUpdate ==
    /\ scene = "NotificationBar"
    /\ \E r \in {NotificationBar_update(0, 0, theme)} :
          Observe("NotificationBar.update", RetNone, r.calls, r.drawn)
    /\ UNCHANGED <<scene, envVars, widgetVars>>

StatusBarDraw ==
    /\ scene = "StatusBar"
    /\ \E r \in {StatusBar_draw(enabled, theme)} :
          /\ on_screen' = r.on_screen
          /\ level' = r.level
          /\ Observe("StatusBar.draw", r.ret, r.calls, r.drawn)
    /\ UNCHANGED <<scene, envVars, enabled, touchVars, appVars>>

StatusBarUpdate ==
    /\ scene = "StatusBar"
    /\ \E r \in {StatusBar_update(on_screen, enabled, level, theme)} :
          /\ on_screen' = r.on_screen
          /\ level' = r.level
          /\ Observe("StatusBar.update", r.ret, r.calls, r.drawn)
    /\ UNCHANGED <<scene, envVars, enabled, touchVars, appVars>>

\* ScrollIndicator.up and .down are public attributes the host assigns
SetScroll ==
    /\ scene = "ScrollIndicator"
    /\ \E u \in BOOLEAN, d \in BOOLEAN :
          /\ <<u, d>> # <<scroll.up, scroll.down>>
          /\ scroll' = [scroll EXCEPT !.up = u, !.down = d]
    /\ Observe("scroll.setter", RetNone, <<>>, <<>>)
    /\ UNCHANGED <<scene, envVars, barVars, appVars, button, checkbox, slider, spinner, confirm, card>>

ScrollIndicatorDraw ==
    /\ scene = "ScrollIndicator"
    /\ Observe("ScrollIndicator.draw", RetNone, <<>>, ScrollIndicator_draw(scroll, theme).drawn)
    /\ UNCHANGED <<scene, envVars, widgetVars>>

ScrollIndicatorUpdate ==
    /\ scene = "ScrollIndicator"
    /\ Observe("ScrollIndicator.update", RetNone, <<>>,
               ScrollIndicator_update(scroll, theme).drawn)
    /\ UNCHANGED <<scene, envVars, widgetVars>>

CheckboxDraw ==
    /\ scene = "Checkbox"
    /\ Observe("Checkbox.draw", RetNone, <<>>, Checkbox_draw(checkbox, theme).drawn)
    /\ UNCHANGED <<scene, envVars, widgetVars>>

CheckboxUpdate ==
    /\ scene = "Checkbox"
    /\ Observe("Checkbox.update", RetNone, <<>>, Checkbox_update(checkbox, theme).drawn)
    /\ UNCHANGED <<scene, envVars, widgetVars>>

CheckboxTouch ==
    /\ scene = "Checkbox"
    /\ \E e \in Events :
          \E r \in {Checkbox_touch(checkbox, e, theme)} :
          /\ checkbox' = r.self
          /\ ObserveTouch("Checkbox.touch", e, r.ret, <<>>, r.drawn, <<>>)
    /\ UNCHANGED <<scene, envVars, barVars, appVars, button, scroll, slider, spinner, confirm, card>>

SliderDraw ==
    /\ scene = "Slider"
    /\ \E r \in {Slider_draw(slider, theme)} :
          /\ slider' = r.self
          /\ Observe("Slider.draw", RetNone, <<>>, r.drawn)
    /\ UNCHANGED <<scene, envVars, barVars, appVars, button, scroll, checkbox, spinner, confirm, card>>

SliderUpdate ==
    /\ scene = "Slider"
    /\ \E r \in {Slider_update(slider, theme)} :
          /\ slider' = r.self
          /\ Observe("Slider.update", RetNone, <<>>, r.drawn)
    /\ UNCHANGED <<scene, envVars, barVars, appVars, button, scroll, checkbox, spinner, confirm, card>>

SliderTouch ==
    /\ scene = "Slider"
    /\ \E e \in SliderEvents :
          \E r \in {Slider_touch(slider, e)} :
          /\ slider' = r.self
          /\ ObserveTouch("Slider.touch", e, r.ret, <<>>, r.drawn, <<>>)
    /\ UNCHANGED <<scene, envVars, barVars, appVars, button, scroll, checkbox, spinner, confirm, card>>

SpinnerDraw ==
    /\ scene = "Spinner"
    /\ Observe("Spinner.draw", RetNone, <<>>, Spinner_draw(spinner, theme).drawn)
    /\ UNCHANGED <<scene, envVars, widgetVars>>

SpinnerUpdate ==
    /\ scene = "Spinner"
    /\ Observe("Spinner.update", RetNone, <<>>, Spinner_update(spinner, theme).drawn)
    /\ UNCHANGED <<scene, envVars, widgetVars>>

SpinnerTouch ==
    /\ scene = "Spinner"
    /\ \E e \in Events :
          \E r \in {Spinner_touch(spinner, e, theme)} :
          /\ spinner' = r.self
          /\ ObserveTouch("Spinner.touch", e, r.ret, <<>>, r.drawn, <<>>)
    /\ UNCHANGED <<scene, envVars, barVars, appVars, button, scroll, checkbox, slider, confirm, card>>

ConfirmationViewDraw ==
    /\ scene \in {"ConfirmationView", "Dispatch"}
    /\ \E r \in {ConfirmationView_draw(confirm, <<"S", "u", "r", "e", "?">>, theme)} :
          /\ confirm' = r.self
          /\ Observe("ConfirmationView.draw", RetNone, r.calls, r.drawn)
    /\ UNCHANGED <<scene, envVars, barVars, appVars, button, scroll, checkbox, slider, spinner, card>>

ConfirmationViewTouch ==
    /\ scene = "ConfirmationView"
    /\ \E e \in Events :
          \E r \in {ConfirmationView_touch(confirm, e)} :
          /\ confirm' = r.self
          /\ ObserveTouch("ConfirmationView.touch", e, r.ret, r.calls, <<>>, <<>>)
    /\ UNCHANGED <<scene, envVars, barVars, appVars, button, scroll, checkbox, slider, spinner, card>>

ButtonDraw ==
    /\ scene = "Button"
    /\ Observe("Button.draw", RetNone, <<>>, Button_draw(button, theme).drawn)
    /\ UNCHANGED <<scene, envVars, widgetVars>>

ButtonTouch ==
    /\ scene = "Button"
    /\ \E e \in Events :
          \E r \in {Button_touch(button, e)} :
          ObserveTouch("Button.touch", e, r.ret, <<>>, r.drawn, <<>>)
    /\ UNCHANGED <<scene, envVars, widgetVars>>

CardDraw ==
    /\ scene = "Card"
    /\ \E all \in BOOLEAN :
          Observe(IF all THEN "Card.draw" ELSE "Card.draw(all=False)", RetNone, <<>>,
                  Card_draw(card, all, theme).drawn)
    /\ UNCHANGED <<scene, envVars, widgetVars>>

CardTouch ==
    /\ scene = "Card"
    /\ \E e \in Events :
          \E r \in {Card_touch(card, theme)} :
          /\ card' = r.self
          /\ ObserveTouch("Card.touch", e, r.ret, <<>>, r.drawn, <<>>)
    /\ UNCHANGED <<scene, envVars, barVars, appVars, button, scroll, checkbox, slider, spinner, confirm>>

\* foreground(): the status bar's clock is switched off, then _draw(True)
ClockAppForeground ==
    /\ scene = "ClockApp"
    /\ \E r \in {ClockApp_draw(clockapp, TRUE, on_screen, FALSE, level, theme)} :
          /\ enabled' = FALSE
          /\ clockapp' = r.self
          /\ on_screen' = r.on_screen
          /\ level' = r.level
          /\ Observe("ClockApp.foreground", r.ret, r.calls, r.drawn)
    /\ UNCHANGED <<scene, envVars, touchVars>>

\* tick() and wake() are _draw(); the system manager calls them only for the
\* application in the foreground
ClockAppTick ==
    /\ scene = "ClockApp"
    /\ clockapp.has_min
    /\ \E name \in {"ClockApp.tick", "ClockApp.wake"} :
       \E r \in {ClockApp_draw(clockapp, FALSE, on_screen, enabled, level, theme)} :
          /\ clockapp' = r.self
          /\ on_screen' = r.on_screen
          /\ level' = r.level
          /\ Observe(name, r.ret, r.calls, r.drawn)
    /\ UNCHANGED <<scene, envVars, enabled, touchVars>>

\* the host routes one touch event through its interactive widgets
DispatchTouch ==
    /\ scene = "Dispatch"
    /\ \E e \in DispatchEvents :
          \E r \in {Dispatch(e, confirm, checkbox, slider, spinner, card, theme)} :
          /\ checkbox' = r.checkbox
          /\ slider' = r.slider
          /\ spinner' = r.spinner
          /\ card' = r.card
          /\ confirm' = r.confirm
          /\ ObserveTouch("dispatch", e, RetNone, r.calls, r.drawn, r.pass)
    /\ UNCHANGED <<scene, envVars, barVars, appVars, button, scroll>>

NextMeter == SetTheme \/ SetBattery \/ BatteryMeterDraw \/ BatteryMeterUpdate

NextClock == SetTheme \/ Tick \/ SetEnabled \/ ClockDraw \/ ClockUpdate

NextNotif == SetTheme \/ SetLink \/ NotificationBarDraw \/ NotificationBarUpdate

NextBar ==
    \/ SetTheme \/ Tick \/ SetBattery \/ SetLink \/ SetEnabled
    \/ StatusBarDraw \/ StatusBarUpdate

NextScroll == SetTheme \/ SetScroll \/ ScrollIndicatorDraw \/ ScrollIndicatorUpdate

NextButton == SetTheme \/ ButtonDraw \/ ButtonTouch

NextCheckbox == SetTheme \/ CheckboxDraw \/ CheckboxUpdate \/ CheckboxTouch

NextSlider == SetTheme \/ SliderDraw \/ SliderUpdate \/ SliderTouch

NextSpinner == SetTheme \/ SpinnerDraw \/ SpinnerUpdate \/ SpinnerTouch

NextConfirm == SetTheme \/ ConfirmationViewDraw \/ ConfirmationViewTouch

NextCard == SetTheme \/ CardDraw \/ CardTouch

NextClockApp == SetTheme \/ Tick \/ SetBattery \/ ClockAppForeground \/ ClockAppTick

NextDispatch == ConfirmationViewDraw \/ DispatchTouch

SpecMeter == InitScene("BatteryMeter") /\ [][NextMeter]_vars

SpecClock == InitScene("Clock") /\ [][NextClock]_vars

SpecBar == InitScene("StatusBar") /\ [][NextBar]_vars

\* the status bar of an application that asked for a periodic tick: the RTC
\* keeps moving, and the host keeps calling update() after the RTC moved (the
\* ticks are a second apart).  The bounded RTC can come back to the time on
\* screen before the update runs, hence strong fairness for that update.
NextBarLive == Tick \/ SetBattery \/ StatusBarDraw \/ StatusBarUpdate

UpdateAfterTick == on_screen # rtc /\ op' = "StatusBar.update" /\ StatusBarUpdate

SpecBarLive ==
    /\ InitScene("StatusBar")
    /\ [][NextBarLive]_vars
    /\ WF_vars(Tick)
    /\ SF_vars(UpdateAfterTick)

\* the Clock and the BatteryMeter, each on a screen of its own
SpecLeaf == (InitScene("BatteryMeter") \/ InitScene("Clock")) /\ [][NextMeter \/ NextClock]_vars

\* every widget that has an update(), each on a screen of its own
UpdatableScenes == {"BatteryMeter", "Clock", "NotificationBar", "StatusBar",
                    "ScrollIndicator", "Checkbox", "Slider", "Spinner"}

NextWidgets ==
    \/ NextMeter \/ NextClock \/ NextNotif \/ NextBar
    \/ NextScroll \/ NextCheckbox \/ NextSlider \/ NextSpinner

SpecWidgets == (\E s \in UpdatableScenes : InitScene(s)) /\ [][NextWidgets]_vars

SpecConfirm == InitScene("ConfirmationView") /\ [][NextConfirm]_vars

SpecButton == InitScene("Button") /\ [][NextButton]_vars

SpecCheckbox == InitScene("Checkbox") /\ [][NextCheckbox]_vars

SpecSlider == InitScene("Slider") /\ [][NextSlider]_vars

SpecSpinner == InitScene("Spinner") /\ [][NextSpinner]_vars

SpecCard == InitScene("Card") /\ [][NextCard]_vars

SpecClockApp == InitScene("ClockApp") /\ [][NextClockApp]_vars

\* every widget, each on a screen of its own
AllScenes == UpdatableScenes \cup {"Button", "ConfirmationView", "Card"}

NextAll == NextWidgets \/ NextButton \/ NextConfirm \/ NextCard

SpecAll == (\E s \in AllScenes : InitScene(s)) /\ [][NextAll]_vars

SpecDispatch == InitScene("Dispatch") /\ [][NextDispatch]_vars

(***************************************************************************)
(* Properties                                                              *)
(***************************************************************************)
WidgetMethods == {"Clock.update", "BatteryMeter.update", "NotificationBar.update",
                  "Clock.draw", "BatteryMeter.draw", "NotificationBar.draw"}

\* the widget methods a composite called, in order
WidgetCalls(cs) == SelectSeq(cs, LAMBDA c : c \in WidgetMethods)

\* the provider reads a method made, in order
ProviderReads(cs) == SelectSeq(cs, LAMBDA c : c \notin WidgetMethods)

Count(ds, P(_)) == Len(SelectSeq(ds, P))

IsBatteryBlit(d) == d.call = "blit" /\ d.icon = "battery"

IsFill(d) == d.call = "fill"

\* C1: StatusBar.update() calls Clock.update() first; when the time tuple is
\* the one on screen (Clock.update() returns None) it calls neither
\* BatteryMeter.update() nor NotificationBar.update() and reads neither the
\* battery nor the connection state; otherwise it calls BatteryMeter.update()
\* and then NotificationBar.update(), once each, and returns the time tuple.
C1_StatusBarFanOut ==
    op = "StatusBar.update" =>
        /\ Len(calls) > 0 /\ calls[1] = "Clock.update"
        /\ IF pre.on_screen = rtc
           THEN /\ ret = RetNone
                /\ WidgetCalls(calls) = <<"Clock.update">>
                /\ ProviderReads(calls) = <<"rtc.get_localtime">>
           ELSE /\ ret = RetTime(rtc)
                /\ WidgetCalls(calls) =
                      <<"Clock.update", "BatteryMeter.update", "NotificationBar.update">>

\* an update at an unchanged time while the battery reading is not the one
\* cached and a notification is pending: nothing but the clock is consulted
C1_Witness ==
    /\ op = "StatusBar.update"
    /\ pre.on_screen = rtc
    /\ ~charging /\ battery # level
    /\ notifications
    /\ ret = RetNone
    /\ calls = <<"Clock.update", "rtc.get_localtime">>

\* the text 'HH:MM' of a time tuple (hour and minute below 100)
HHMM(t) == <<Digit(t[4] \div 10), Digit(t[4] % 10), ":",
             Digit(t[5] \div 10), Digit(t[5] % 10)>>

IsClockText(d) == d.call = "string" /\ d.text = HHMM(rtc)

\* C3: draw() repaints whatever is cached: BatteryMeter.draw() blits the
\* battery icon exactly once for every cached level and every reading, and
\* Clock.draw() on an enabled clock renders the HH:MM text of the RTC time for
\* every on_screen value, the current time included.
C3_DrawRepaints ==
    /\ op = "BatteryMeter.draw" => Count(drawn, IsBatteryBlit) = 1
    /\ (op = "Clock.draw" /\ enabled) => Count(drawn, IsClockText) = 1

\* Clock.draw() when the time on screen is the current time
C3_Witness ==
    /\ op = "Clock.draw"
    /\ enabled
    /\ pre.on_screen = rtc
    /\ Count(drawn, IsClockText) = 1

\* C4: Clock.update() returns None and keeps on_screen exactly when on_screen
\* is set and equals the RTC time tuple in every field; otherwise, enabled or
\* not, it stores the RTC time in on_screen and returns it.
C4_ClockReportsChange ==
    op = "Clock.update" =>
        IF pre.on_screen # None /\ pre.on_screen = rtc
        THEN ret = RetNone /\ on_screen = pre.on_screen
        ELSE ret = RetTime(rtc) /\ on_screen = rtc

\* a disabled clock, only the seconds moved: the change is stored and reported
C4_Witness ==
    /\ op = "Clock.update"
    /\ ~enabled
    /\ pre.on_screen # None
    /\ pre.on_screen[4] = rtc[4] /\ pre.on_screen[5] = rtc[5]
    /\ pre.on_screen[6] # rtc[6]
    /\ ret = RetTime(rtc)
    /\ on_screen = rtc

\* C5: Clock.update() issues Drawing Surface calls if and only if the clock is
\* enabled and (on_screen is None or hour or minute differ from on_screen).
C5_ClockDrawsOnMinute ==
    op = "Clock.update" =>
        (Len(drawn) > 0 <=>
            /\ pre.enabled
            /\ \/ pre.on_screen = None
               \/ pre.on_screen[4] # rtc[4]
               \/ pre.on_screen[5] # rtc[5])

\* an enabled clock, only the seconds moved: reported as changed, nothing drawn
C5_Witness ==
    /\ op = "Clock.update"
    /\ pre.enabled
    /\ pre.on_screen # None
    /\ pre.on_screen[4] = rtc[4] /\ pre.on_screen[5] = rtc[5]
    /\ pre.on_screen[6] # rtc[6]
    /\ ret = RetTime(rtc)
    /\ Len(drawn) = 0

\* C6: BatteryMeter.update() with the battery not charging and the sampled
\* level equal to the cached level draws nothing and keeps the cached level;
\* and every non-charging draw()/update() leaves the sampled level cached, so
\* under a constant reading only the first of consecutive updates can draw.
C6_MeterLazy ==
    /\ (op = "BatteryMeter.update" /\ ~charging /\ battery = pre.level) =>
            (Len(drawn) = 0 /\ level = pre.level)
    /\ (op \in {"BatteryMeter.update", "BatteryMeter.draw"} /\ ~charging) =>
            level = battery

\* the second of two updates under one non-charging reading
C6_Witness ==
    /\ op = "BatteryMeter.update"
    /\ ~charging
    /\ battery = pre.level
    /\ battery = 45
    /\ Len(drawn) = 0

\* C7: not charging, cached level p >= 0, sampled level l # p: the battery icon
\* is blitted iff (l > 5) differs from (p > 5); 7 -> 5 and 5 -> 7 blit it,
\* 7 -> 6 does not.
C7_IconOnCrossing ==
    (op = "BatteryMeter.update" /\ ~charging /\ pre.level >= 0 /\ battery # pre.level) =>
        /\ Count(drawn, IsBatteryBlit) > 0 <=> ((battery > 5) # (pre.level > 5))
        /\ (pre.level = 7 /\ battery = 5) => Count(drawn, IsBatteryBlit) = 1
        /\ (pre.level = 5 /\ battery = 7) => Count(drawn, IsBatteryBlit) = 1
        /\ (pre.level = 7 /\ battery = 6) => Count(drawn, IsBatteryBlit) = 0

\* the step 7 -> 5: the icon is blitted in the warning colour
C7_Witness ==
    /\ op = "BatteryMeter.update"
    /\ ~charging
    /\ pre.level = 7
    /\ battery = 5
    /\ Count(drawn, IsBatteryBlit) = 1
    /\ drawn[1].fg = Rgb(63488)

\* C8: while the battery reports charging, BatteryMeter.update() blits the icon
\* in the 'battery' theme colour, and calls no fill, exactly when the cached
\* level is not -1, and leaves -1 cached; with -1 cached it draws nothing.
C8_ChargingBlitsOnce ==
    (op = "BatteryMeter.update" /\ charging) =>
        /\ level = -1
        /\ IF pre.level # -1
           THEN drawn = <<Blit("battery", 239 - battery_icon_w - 5, 5,
                               ThemeColor(theme, "battery"))>>
           ELSE Len(drawn) = 0

\* the charger is plugged in while a level is cached: one blit; level -1 cached
C8_Witness ==
    /\ op = "BatteryMeter.update"
    /\ charging
    /\ pre.level = 7
    /\ level = -1
    /\ Len(drawn) = 1
    /\ drawn[1].call = "blit"

PaintOps == {"BatteryMeter.draw", "BatteryMeter.update", "Clock.draw", "Clock.update",
             "NotificationBar.draw", "NotificationBar.update",
             "StatusBar.draw", "StatusBar.update",
             "ScrollIndicator.draw", "ScrollIndicator.update",
             "Checkbox.draw", "Checkbox.update", "Slider.draw", "Slider.update",
             "Spinner.draw", "Spinner.update"}

UpdateOps == {"BatteryMeter.update", "Clock.update", "NotificationBar.update",
              "StatusBar.update", "ScrollIndicator.update", "Checkbox.update",
              "Slider.update", "Spinner.update"}

LazyUpdateOps == {"BatteryMeter.update", "Clock.update", "StatusBar.update"}

\* C2 as claimed: for every widget, an update() that directly follows a draw()
\* or an update() of that widget (no provider, attribute or touch step in
\* between) issues no Drawing Surface call.
C2_AllWidgetsLazy ==
    [][(op \in PaintOps /\ op' \in UpdateOps) => Len(drawn') = 0]_vars

\* C2 as amended: that holds for BatteryMeter, Clock and StatusBar, while
\* NotificationBar, Checkbox, Slider and Spinner paint in every update() and
\* ScrollIndicator paints in every update() in which up or down is set.
C2_LazyWidgets ==
    /\ [][(op \in PaintOps /\ op' \in LazyUpdateOps) => Len(drawn') = 0]_vars
    /\ [](op \in {"NotificationBar.update", "Checkbox.update",
                  "Slider.update", "Spinner.update"} => Len(drawn) > 0)
    /\ [](op = "ScrollIndicator.update" => (Len(drawn) > 0 <=> (scroll.up \/ scroll.down)))

\* a BatteryMeter.update() that finds the cached level current, as after draw()
C2_Witness ==
    /\ op = "BatteryMeter.update"
    /\ ~charging
    /\ pre.level = battery
    /\ level = battery
    /\ Len(drawn) = 0

\* the touch() calls of a pass that changed their widget or painted
Handlers == {i \in 1..Len(pass) : pass[i].changed \/ pass[i].painted}

InBox(e, im) ==
    /\ e[2] >= im[1] - 10 /\ e[2] < im[1] + im[3] + 10
    /\ e[3] >= im[2] - 10 /\ e[3] < im[2] + im[4] + 10

\* C9: in a dispatch pass every touch() that changed its widget's state or
\* repainted returns consumed, so at most one widget handles the event; no
\* widget after the first consumer is called, and inside ConfirmationView the
\* No button is not tested once Yes has hit.
C9_OneConsumer ==
    op = "dispatch" =>
        /\ \A i \in Handlers : Truthy(pass[i].ret)
        /\ Cardinality(Handlers) <= 1
        /\ \A i \in 1..Len(pass) : Truthy(pass[i].ret) => i = Len(pass)
        /\ (pre.confirm.active /\ InBox(ev, yes_im)) => calls = <<"Button.touch:yes">>

\* C10: while a ConfirmationView is inactive, touch() returns not-consumed for
\* every event and changes neither value nor active.
C10_InactiveIgnores ==
    (op = "ConfirmationView.touch" /\ ~pre.confirm.active) =>
        /\ ret = RetBool(FALSE)
        /\ confirm = pre.confirm

\* after a Yes hit, a second touch inside the Yes hit box
C10_Witness ==
    /\ op = "ConfirmationView.touch"
    /\ ~pre.confirm.active
    /\ pre.confirm.value
    /\ InBox(ev, yes_im)
    /\ ret = RetBool(FALSE)
    /\ confirm.value

\* a touch of an active ConfirmationView that lands in a button's hit box
ConfirmHit(im) ==
    op = "ConfirmationView.touch" /\ pre.confirm.active /\ InBox(ev, im)

C11_HitDecides ==
    /\ ConfirmHit(yes_im) =>
          confirm = [active |-> FALSE, value |-> TRUE] /\ ret = RetBool(TRUE)
    /\ ConfirmHit(no_im) =>
          confirm = [active |-> FALSE, value |-> FALSE] /\ ret = RetBool(TRUE)

C11_RepeatIgnored ==
    ( /\ ConfirmHit(yes_im) \/ ConfirmHit(no_im)
      /\ op' = "ConfirmationView.touch"
      /\ ev' = ev )
    => (ret' = RetBool(FALSE) /\ confirm' = confirm)

\* C11: while a ConfirmationView is active, a touch in the Yes hit box sets
\* value to True and a touch in the No hit box sets value to False; both make
\* the view inactive and return True, and a touch at the same coordinates
\* right after returns False and changes nothing.
C11_HitSetsValue == []C11_HitDecides /\ [][C11_RepeatIgnored]_vars

\* a No hit that overwrites the True of an earlier Yes hit
C11_Witness ==
    /\ ConfirmHit(no_im)
    /\ pre.confirm.value
    /\ confirm = [active |-> FALSE, value |-> FALSE]
    /\ ret = RetBool(TRUE)

C12_MissKeeps ==
    ( /\ op = "ConfirmationView.touch"
      /\ pre.confirm.active
      /\ ~InBox(ev, yes_im)
      /\ ~InBox(ev, no_im) )
    => ( /\ ret = RetBool(FALSE)
         /\ confirm = pre.confirm
         /\ confirm.active )

C12_LeavesByHit ==
    (confirm.active /\ ~confirm'.active)
    => ( /\ op' = "ConfirmationView.touch"
         /\ InBox(ev', yes_im) \/ InBox(ev', no_im) )

\* C12: while a ConfirmationView is active, a touch outside both hit boxes
\* returns False and leaves active True and value unchanged; the view stops
\* being active only by a touch inside the Yes or the No hit box.
C12_MissStaysActive == []C12_MissKeeps /\ [][C12_LeavesByHit]_vars

\* a touch one pixel left of the Yes hit box, with an earlier answer of True
C12_Witness ==
    /\ op = "ConfirmationView.touch"
    /\ pre.confirm.active
    /\ pre.confirm.value
    /\ ev = <<"touch", 9, 130>>
    /\ ret = RetBool(FALSE)
    /\ confirm.active

\* a touch inside the Spinner's 60x120 box, in its upper or its lower half
SpinnerHit(upper) ==
    LET im == pre.spinner.im IN
    /\ op = "Spinner.touch"
    /\ ev[2] >= im[1] /\ ev[2] < im[1] + 60
    /\ ev[3] >= im[2] /\ ev[3] < im[2] + 120
    /\ upper <=> ev[3] < im[2] + 60

\* C13: a Spinner's value stays in [mn, mx) after any sequence of touches: an
\* upper-half touch at value mx-1 wraps to mn and a lower-half touch at value
\* mn wraps to mx-1 (with bounds [0, 3): from 2 up to 0, from 0 down to 2).
C13_SpinnerWraps ==
    LET mn == spinner.im[3]
        mx == spinner.im[4]
    IN  /\ mn <= spinner.value /\ spinner.value < mx
        /\ (SpinnerHit(TRUE) /\ pre.spinner.value = mx - 1) => spinner.value = mn
        /\ (SpinnerHit(FALSE) /\ pre.spinner.value = mn) => spinner.value = mx - 1

\* the integer nearest to n/d for d > 0, a half rounding upwards
Nearest(n, d) ==
    CHOOSE k \in -(2 * d)..(2 * d) : 2 * k * d - d <= 2 * n /\ 2 * n < 2 * k * d + d

Clamp(k, lo, hi) == IF k < lo THEN lo ELSE IF k > hi THEN hi ELSE k

\* C14: Slider.touch at tx sets value to round((tx - start) / stepSize) with
\* start = x + 20 and stepSize = 180/(steps-1), clamped to [0, steps-1]: 0 at
\* or left of the track start, steps-1 at or right of the track end, and
\* 0 <= value <= steps-1 after any sequence of touches.
C14_TouchRounds ==
    LET steps == slider.steps
        start == slider.x + 20
        tx == ev[2]
    IN  /\ 0 <= slider.value /\ slider.value <= steps - 1
        /\ op = "Slider.touch" =>
              /\ slider.value =
                     Clamp(Nearest((tx - start) * (steps - 1), SLIDER_TRACK), 0, steps - 1)
              /\ tx <= start => slider.value = 0
              /\ tx >= start + SLIDER_TRACK => slider.value = steps - 1

\* five steps, 68 pixels into the track: just past the middle of steps 1 and 2
C14_Witness ==
    /\ op = "Slider.touch"
    /\ slider.steps = 5
    /\ ev[2] = 98
    /\ pre.slider.value = 4
    /\ slider.value = 2

\* C15: Slider.touch, having stored the step index in value, always calls
\* draw(): when touch returns, the knob and the track have been painted for
\* the new value.
C15_TouchRedraws ==
    op = "Slider.touch" =>
        \E i \in 1..Len(drawn) :
            /\ drawn[i].call = "blit"
            /\ drawn[i].icon = "knob"
            /\ drawn[i].x = slider.x + ((SLIDER_TRACK * slider.value) \div (slider.steps - 1))

\* the touch e is inside the 40 pixel band of the Checkbox c
InBand(e, c) == e[3] >= c.im[2] /\ e[3] < c.im[2] + 40

IsCheckboxBlit(d) == d.call = "blit" /\ d.icon = "checkbox"

IsString(d) == d.call = "string"

C16_TapToggles ==
    op = "Checkbox.touch" =>
        IF InBand(ev, pre.checkbox)
        THEN /\ checkbox = [pre.checkbox EXCEPT !.state = ~pre.checkbox.state]
             /\ ret = RetBool(TRUE)
             /\ Count(drawn, IsCheckboxBlit) = 1
             /\ Count(drawn, IsString) = 0
        ELSE /\ checkbox = pre.checkbox
             /\ ret = RetBool(FALSE)
             /\ drawn = <<>>

C16_TwoTapsRestore ==
    ( /\ op = "Checkbox.touch" /\ InBand(ev, pre.checkbox)
      /\ op' = "Checkbox.touch" /\ InBand(ev', checkbox) )
    => checkbox' = pre.checkbox

\* C16: Checkbox.touch with y0 <= y < y0+40, at any x, flips state, repaints
\* the checkbox glyph and returns True, so two such taps restore state; with y
\* outside the band it returns False, keeps state and draws nothing.
C16_CheckboxToggles == []C16_TapToggles /\ [][C16_TwoTapsRestore]_vars

\* a labelled, checked Checkbox tapped on the last row of its band, far right
C16_Witness ==
    /\ op = "Checkbox.touch"
    /\ ev = <<"touch", 230, 79>>
    /\ pre.checkbox.im[3] # <<>>
    /\ pre.checkbox.state
    /\ ~checkbox.state
    /\ ret = RetBool(TRUE)
    /\ Count(drawn, IsCheckboxBlit) = 1

\* C17: Button.touch of a button with rectangle (x0, y0, w, h) returns True
\* exactly when x0-10 <= x < x0+w+10 and y0-10 <= y < y0+h+10, and it changes
\* no state and makes no drawing call.
C17_ButtonHitBox ==
    op = "Button.touch" =>
        LET x0 == button[1]
            y0 == button[2]
            w == button[3]
            h == button[4]
            x == ev[2]
            y == ev[3]
        IN  /\ ret = RetBool(/\ x0 - 10 <= x /\ x < x0 + w + 10
                              /\ y0 - 10 <= y /\ y < y0 + h + 10)
            /\ Snapshot = pre
            /\ drawn = <<>>

\* a touch in the margin of the No button: ten pixels left of and above it
C17_Witness ==
    /\ op = "Button.touch"
    /\ button = no_im
    /\ ev = <<"touch", 120, 130>>
    /\ ret = RetBool(TRUE)
    /\ drawn = <<>>

C18_TouchToggles ==
    op = "Card.touch" =>
        /\ ret = RetBool(TRUE)
        /\ card.state = (IF pre.card.state = "On" THEN "Off" ELSE "On")
        /\ pre.card.state = "On" =>
              card.icon = "light_off_50" /\ card.on_icon = pre.card.icon
        /\ pre.card.state = "Off" => card.icon # "light_off_50"
        /\ drawn = Card_draw(card, FALSE, theme).drawn

C18_TwoTouchesRestore ==
    (op = "Card.touch" /\ op' = "Card.touch")
    => (card'.state = pre.card.state /\ card'.icon = pre.card.icon)

\* C18: for a Card constructed with any state, every touch() completes
\* normally, toggles state between "On" and "Off", swaps the icon (the off
\* bitmap going Off, the original icon going On), does the partial repaint and
\* returns True; two touches in a row restore state and icon.
C18_CardToggles == []C18_TouchToggles /\ [][C18_TwoTouchesRestore]_vars

IsBluetoothBlit(d) == d.call = "blit" /\ d.icon = "bluetooth"

IsAlertBlit(d) == d.call = "blit" /\ d.icon = "alert"

\* a fill with colour 0 of the w x h rectangle at (x, y)
IsClear(d, x, y, w, h) ==
    /\ d.call = "fill" /\ d.bg = Rgb(0)
    /\ d.x = x /\ d.y = y /\ d.w = w /\ d.h = h

\* C19: NotificationBar.update(), and draw() alike, paints by the two inputs:
\* connected and notifications pending gives the connectivity icon and the
\* alert icon; connected only, the connectivity icon and a cleared alert slot;
\* notifications only, the alert icon and a cleared connectivity slot; neither,
\* one clear of both slots.  It draws on every call and keeps no state.
C19_NotificationBarPaints ==
    op \in {"NotificationBar.update", "NotificationBar.draw"} =>
        /\ Snapshot = pre
        /\ Len(drawn) > 0
        /\ (connected /\ notifications) =>
              /\ Len(drawn) = 2
              /\ IsBluetoothBlit(drawn[1]) /\ drawn[1].x = 5 /\ drawn[1].y = 5
              /\ IsAlertBlit(drawn[2]) /\ drawn[2].x = 27 /\ drawn[2].y = 5
        /\ (connected /\ ~notifications) =>
              /\ Len(drawn) = 2
              /\ IsBluetoothBlit(drawn[1]) /\ drawn[1].x = 5 /\ drawn[1].y = 5
              /\ IsClear(drawn[2], 27, 5, 30, 32)
        /\ (~connected /\ notifications) =>
              /\ Len(drawn) = 2
              /\ IsAlertBlit(drawn[1]) /\ drawn[1].x = 0 /\ drawn[1].y = 0
              /\ IsClear(drawn[2], 30, 0, 22, 32)
        /\ (~connected /\ ~notifications) =>
              /\ Len(drawn) = 1
              /\ IsClear(drawn[1], 0, 0, 52, 32)

\* update() while connected with nothing pending
C19_Witness ==
    /\ op = "NotificationBar.update"
    /\ connected /\ ~notifications
    /\ Len(drawn) = 2
    /\ IsBluetoothBlit(drawn[1])
    /\ IsClear(drawn[2], 27, 5, 30, 32)

\* draw() and update() of every widget
AllPaintOps ==
    PaintOps \cup {"Button.draw", "ConfirmationView.draw", "Card.draw", "Card.draw(all=False)"}

SliderPaintOps == {"Slider.draw", "Slider.update"}

\* the colour c is a literal, or was looked up from (or derived from) theme th
FreshColor(c, th) ==
    c.src \in {"theme", "lighten", "darken"} =>
        /\ c.theme = th
        /\ \A i \in 1..Len(c.by) : c.by[i].src = "theme" => c.by[i].theme = th

FreshCall(d, th) == FreshColor(d.fg, th) /\ FreshColor(d.bg, th) /\ FreshColor(d.hl, th)

\* the colours named in the call d
CallColors(d) == {d.fg, d.bg, d.hl}

\* C20 as claimed: every draw() and update(), of every widget, paints only
\* with colours looked up from, or derived from, the theme that is active
\* during the call, also when the theme changed since the previous call.
C20_AllFresh ==
    op \in AllPaintOps => \A i \in 1..Len(drawn) : FreshCall(drawn[i], theme)

\* C20 as amended: that holds for every widget but the Slider, which looks its
\* two colours up in its first draw() and paints with those from then on.
C20_FreshButSlider ==
    /\ op \in AllPaintOps \ SliderPaintOps =>
          \A i \in 1..Len(drawn) : FreshCall(drawn[i], theme)
    /\ op \in SliderPaintOps =>
          /\ slider.color =
                 (IF pre.slider.color = NoColor THEN ThemeColor(theme, "ui")
                                                ELSE pre.slider.color)
          /\ slider.lowlight =
                 (IF pre.slider.lowlight = NoColor
                  THEN Lighten(slider.color, ThemeColor(theme, "contrast"))
                  ELSE pre.slider.lowlight)
          /\ \A i \in 1..Len(drawn) :
                drawn[i].call \in {"blit", "fill"} =>
                    CallColors(drawn[i]) \subseteq
                        {slider.color, slider.lowlight, Rgb(0), NoColor}

\* a Slider drawn again after the theme was changed: the knob is blitted in
\* the colour of the theme of its first draw()
C20_Witness ==
    /\ op \in SliderPaintOps
    /\ pre.slider.color # NoColor
    /\ slider.color.theme # theme
    /\ \E i \in 1..Len(drawn) :
          /\ drawn[i].call = "blit"
          /\ drawn[i].fg = slider.color
          /\ ~FreshCall(drawn[i], theme)

MeterOps == {"BatteryMeter.draw", "BatteryMeter.update"}

C21_LevelTracks ==
    /\ level \in -2..100
    /\ level = -2 => op \notin MeterOps
    /\ op \in MeterOps => level = (IF charging THEN -1 ELSE battery)

C21_NeverBackToUndrawn == level # -2 => level' # -2

\* C21: after any sequence of BatteryMeter.draw()/update() calls with level
\* readings in 0..100 the cached level lies in [-2, 100]; it is -2 only before
\* the first update() has completed, and after every update() it is -1 if
\* that update saw the battery charging and the sampled level otherwise.
C21_CachedLevel == []C21_LevelTracks /\ [][C21_NeverBackToUndrawn]_vars

\* an update() that finds the battery charging after a level was shown
C21_Witness ==
    /\ op = "BatteryMeter.update"
    /\ charging
    /\ pre.level = 45
    /\ level = -1

\* the columns of the battery track, and the rows filled for a level
TrackW == battery_icon_w - 4

TrackX == 239 - 7 - TrackW

TrackH(lvl) == (lvl * 22) \div 100

\* the position in ds of the first fill of rows y .. y+h-1 of the track that
\* clears (colour 0) or paints (any other colour); 0 when there is none
FirstTrackFill(ds, clear, y, h) ==
    LET hits == {i \in 1..Len(ds) :
                    /\ ds[i].call = "fill"
                    /\ ds[i].x = TrackX /\ ds[i].w = TrackW
                    /\ ds[i].y = y /\ ds[i].h = h
                    /\ clear <=> ds[i].bg = Rgb(0)}
    IN  IF hits = {} THEN 0 ELSE CHOOSE i \in hits : \A j \in hits : i <= j

\* C22: on every non-charging BatteryMeter.update() in which the level
\* changed, with h = level*22 // 100, the top 22-h rows of the track are
\* cleared first when there are any and the bottom h rows are painted after
\* that when there are any, so the bar on screen shows exactly h filled rows
\* whatever was shown before.
C22_ClearThenFill ==
    (op = "BatteryMeter.update" /\ ~charging /\ pre.level # battery) =>
        LET h == TrackH(battery)
            cleared == FirstTrackFill(drawn, TRUE, 9, 22 - h)
            painted == FirstTrackFill(drawn, FALSE, 9 + 22 - h, h)
        IN  /\ 22 - h > 0 => cleared > 0
            /\ h > 0 => painted > 0
            /\ (22 - h > 0 /\ h > 0) => cleared < painted
            /\ screen.rows = {r \in 0..21 : r >= 22 - h}

\* C23: after any sequence of BatteryMeter.draw()/update() calls under any
\* charging and level readings, the battery icon last blitted is in the
\* warning colour 0xf800 exactly when the last update saw the battery not
\* charging at a level <= 5, and in the 'battery' theme colour otherwise.
C23_IconColour ==
    level # -2 =>
        screen.icon = (IF level # -1 /\ level <= 5 THEN "warning" ELSE "battery")

\* unplugged at 3%: the icon that was blitted for charging is blitted again
C23_Witness ==
    /\ op = "BatteryMeter.update"
    /\ pre.level = -1
    /\ ~charging /\ battery = 3
    /\ screen.icon = "warning"
    /\ Count(drawn, IsBatteryBlit) = 1

\* the call d paints inside the w x h rectangle at (x, y): a fill with its
\* whole rectangle, a blit (of an icon whose size the widget does not know)
\* at least with its origin
PaintsInside(d, x, y, w, h) ==
    /\ d.call = "fill" =>
          /\ x <= d.x /\ d.x + d.w <= x + w
          /\ y <= d.y /\ d.y + d.h <= y + h
    /\ d.call = "blit" =>
          /\ x <= d.x /\ d.x < x + w
          /\ y <= d.y /\ d.y < y + h

\* C24: NotificationBar always repaints one fixed region: the 52 x 32
\* rectangle at (x, y) that is cleared when neither input is set contains
\* every rectangle update() blits or clears in the other three cases, so no
\* pixel of an earlier update survives outside what the latest one repainted.
C24_OneRegion ==
    op \in {"NotificationBar.update", "NotificationBar.draw"} =>
        \A i \in 1..Len(drawn) : PaintsInside(drawn[i], 0, 0, 52, 32)

IsBlit(d) == d.call = "blit"

\* the numeric field of the Spinner sp: its value, zero padded to the width
IsSpinnerField(d, sp) ==
    /\ d.call = "string"
    /\ d.x = sp.im[1] /\ d.y = sp.im[2] + 60 - 14 /\ d.w = 60
    /\ d.text = (IF Len(PyStr(sp.value)) < sp.im[5]
                 THEN Zeros(sp.im[5] - Len(PyStr(sp.value))) \o PyStr(sp.value)
                 ELSE PyStr(sp.value))

\* C25: Spinner.touch at (x, y) with x0 <= x < x0+60 and y0 <= y < y0+120 is
\* an increment when y < y0+60 and a decrement otherwise (one step, or the
\* wrap to the other end), repaints the numeric field and never the arrows,
\* and returns True; a touch outside the box returns False, keeps value and
\* makes no drawing call.
C25_SpinnerTouch ==
    op = "Spinner.touch" =>
        LET mn == spinner.im[3]
            mx == spinner.im[4]
            old == pre.spinner.value
        IN  /\ spinner.im = pre.spinner.im
            /\ SpinnerHit(TRUE) => spinner.value \in {old + 1, mn} \ {old}
            /\ SpinnerHit(FALSE) => spinner.value \in {old - 1, mx - 1} \ {old}
            /\ (SpinnerHit(TRUE) \/ SpinnerHit(FALSE)) =>
                  /\ ret = RetBool(TRUE)
                  /\ Count(drawn, IsBlit) = 0
                  /\ Count(drawn, IsString) = 1
                  /\ \E i \in 1..Len(drawn) : IsSpinnerField(drawn[i], spinner)
            /\ ~(SpinnerHit(TRUE) \/ SpinnerHit(FALSE)) =>
                  /\ ret = RetBool(FALSE)
                  /\ spinner = pre.spinner
                  /\ drawn = <<>>

\* a touch in the last row and column of the box: one step down, "01" shown
C25_Witness ==
    /\ op = "Spinner.touch"
    /\ ev = <<"touch", 149, 219>>
    /\ pre.spinner.value = 2
    /\ spinner.value = 1
    /\ ret = RetBool(TRUE)
    /\ \E i \in 1..Len(drawn) : drawn[i].call = "string" /\ drawn[i].text = <<"0", "1">>

IsMute(d) == d.call = "mute"

\* the label of the button im is written at the button's place
IsLabel(d, im) ==
    d.call = "string" /\ d.text = im[5] /\ d.x = im[1] /\ d.w = im[3]

\* C26: ConfirmationView.draw(message) mutes the display before its first
\* drawing call and unmutes it after its last, so the clear, the message and
\* both buttons are drawn while muted and the display is unmuted on return;
\* on return active is True whatever it was, and value is unchanged.
C26_DrawMuted ==
    op = "ConfirmationView.draw" =>
        LET n == Len(drawn) IN
        /\ n >= 2
        /\ drawn[1] = Mute(TRUE)
        /\ drawn[n] = Mute(FALSE)
        /\ Count(drawn, IsMute) = 2
        /\ \E c, m, y, o \in 2..(n - 1) :
              /\ c < m /\ m < y /\ y < o
              /\ drawn[c] = FillAll
              /\ drawn[m].call = "string" /\ drawn[m].text = <<"S", "u", "r", "e", "?">>
              /\ IsLabel(drawn[y], yes_im)
              /\ IsLabel(drawn[o], no_im)
        /\ confirm.active
        /\ confirm.value = pre.confirm.value

\* draw() of a view that is already active and holds an earlier Yes
C26_Witness ==
    /\ op = "ConfirmationView.draw"
    /\ pre.confirm.active
    /\ pre.confirm.value
    /\ confirm = [active |-> TRUE, value |-> TRUE]
    /\ drawn[1] = Mute(TRUE)
    /\ drawn[Len(drawn)] = Mute(FALSE)

\* the calls of _draw(): foreground() (a full redraw), tick() and wake()
AppDrawOps == {"ClockApp.foreground", "ClockApp.tick", "ClockApp.wake"}

IsDigitBlit(d) ==
    d.call = "blit" /\ d.y = 80 /\ DigitPlace(d.x) # 0

\* the four large digits that show the hour and minute of the time tuple t
FaceOf(t) == <<t[4] \div 10, t[4] % 10, t[5] \div 10, t[5] % 10>>

\* C27: after every ClockApp._draw() (from foreground, tick or wake), however
\* much RTC time passed between the calls, the large digits on screen show
\* the hour and minute of the RTC time at that call; without redraw they are
\* repainted only when the StatusBar reported a time change, and at most once.
C27_FaceShowsTime ==
    op \in AppDrawOps =>
        /\ ret = RetNone
        /\ screen.digits = FaceOf(rtc)
        /\ Count(drawn, IsDigitBlit) \in {0, 4}
        /\ (op # "ClockApp.foreground" /\ Count(drawn, IsDigitBlit) > 0) =>
              on_screen # pre.on_screen

\* hour or minute of the RTC time differ from what Clock.on_screen held
\* (nothing, before the first update)
MinuteMoved(held) == held = None \/ held[4] # rtc[4] \/ held[5] # rtc[5]

\* C28: setting StatusBar.clock changes Clock.enabled only and draws nothing;
\* a disabled clock still advances on_screen, so with the clock switched on
\* the HH:MM text is rendered by StatusBar.draw() and by exactly those
\* StatusBar.update() calls that find the hour or minute of the RTC time
\* different from on_screen, and by no other update().
C28_ClockSwitch ==
    /\ op = "clock.setter" =>
          /\ drawn = <<>>
          /\ enabled = ~pre.enabled
          /\ Snapshot = [pre EXCEPT !.enabled = enabled]
    /\ op \in {"StatusBar.update", "StatusBar.draw"} => enabled = pre.enabled
    /\ (op = "StatusBar.update" /\ ~enabled) =>
          /\ on_screen = rtc
          /\ Count(drawn, IsClockText) = 0
    /\ (op = "StatusBar.update" /\ enabled) =>
          /\ on_screen = rtc
          /\ Count(drawn, IsClockText) = (IF MinuteMoved(pre.on_screen) THEN 1 ELSE 0)
    /\ (op = "StatusBar.draw" /\ enabled) => Count(drawn, IsClockText) = 1

\* the clock is switched on while on_screen, advanced by updates of the
\* disabled clock, is seconds behind the RTC within the same minute
C28_Witness ==
    /\ op = "clock.setter"
    /\ enabled /\ ~pre.enabled
    /\ on_screen # None
    /\ on_screen # rtc
    /\ ~MinuteMoved(on_screen)
    /\ drawn = <<>>

\* the reading (c, l) is what the BatteryMeter shows
Reflected(c, l) == level = (IF c THEN -1 ELSE l)

C29_StableReflected ==
    \A c \in BOOLEAN, l \in BarLevels :
        <>[](charging = c /\ battery = l) => <>[]Reflected(c, l)

C29_NoTickNoSample ==
    (op = "StatusBar.update" /\ pre.on_screen = rtc) =>
        /\ level = pre.level
        /\ Count(calls, LAMBDA k : k \in {"battery.charging", "battery.level"}) = 0

\* C29: when the host keeps calling StatusBar.update() and the RTC time keeps
\* changing between the calls, a battery reading (charging flag and level)
\* that stays stable is eventually reflected: BatteryMeter's cached level
\* becomes -1 if charging and the level otherwise; an update() that finds the
\* RTC time unchanged never samples the battery.
C29_BatteryEventuallyShown == C29_StableReflected /\ []C29_NoTickNoSample

\* an update() after a tick picks up a level that changed since the last one
C29_Witness ==
    /\ op = "StatusBar.update"
    /\ pre.level = 100
    /\ ~charging /\ battery = 5
    /\ level = 5
    /\ pre.on_screen # None /\ pre.on_screen # rtc

====
